---- MODULE Spec2Model ----
(***************************************************************************)
(* Model of the resume-to-job ranking pipeline: the embedding cache        *)
(* (src/ranking/rank_jobs.py, src/sql/__init__.py), the FAISS similarity   *)
(* index (src/ranking/embedding_utils.py), the LLM refinement gateway      *)
(* (src/llm_refiner.py) and the orchestrator main().                       *)
(*                                                                         *)
(* Numbers.  A float32 embedding component is modelled by an integer in    *)
(* F32 = {-1, 0, 1}; embeddings are the unit axis vectors of dimension     *)
(* Dim, so every vector is L2-normalised and every dot product (-1, 0, 1)  *)
(* is exact in float32 as well.  A refined score is modelled in tenths     *)
(* (7 is 0.7, 15 is 1.5).                                                  *)
(***************************************************************************)
EXTENDS Integers, Sequences, FiniteSets, TLC

\* Python's None, a missing row, a missing environment variable
None == "None"

-----------------------------------------------------------------------------
(* Bounds of the model *)

\* rows of job_postings
MaxJobs == 2
\* ranking runs in one behaviour
MaxRuns == 2
\* edits of the corpus / the reference document between runs
MaxEdits == 1
\* rows of the corpus matrix when the similarity index is checked on its own
MaxRows == 3
\* elements of a response array when the parser is checked on its own
MaxEntries == 2

-----------------------------------------------------------------------------
(* Generic helpers *)

Range(s) == { s[i] : i \in 1..Len(s) }

RECURSIVE SeqsUpTo(_, _)
SeqsUpTo(S, n) ==
    IF n = 0 THEN { <<>> }
    ELSE LET shorter == SeqsUpTo(S, n - 1)
         IN  shorter \cup { Append(s, x) : s \in { t \in shorter : Len(t) = n - 1 }, x \in S }

\* Python's d[k] = v on a dict modelled as a function
DictSet(d, k, v) == [ x \in (DOMAIN d) \cup {k} |-> IF x = k THEN v ELSE d[x] ]

EmptyDict == [ x \in {} |-> None ]

-----------------------------------------------------------------------------
(* Embedding vectors and their serialisation (embedding_utils.py) *)

Dim == 2
F32 == { -1, 0, 1 }
\* a float32 whose bit pattern is none of the three modelled values
OtherF32 == "OtherF32"

UnitVectors ==
    { v \in [1..Dim -> F32] : Cardinality({ i \in 1..Dim : v[i] # 0 }) = 1 }

\* little-endian IEEE-754 bytes of a float32: 0.0 = 00000000, 1.0 = 3F800000,
\* -1.0 = BF800000
F32Bytes(x) ==
    CASE x = 0  -> << 0, 0, 0, 0 >>
      [] x = 1  -> << 0, 0, 128, 63 >>
      [] x = -1 -> << 0, 0, 128, 191 >>

BytesF32(chunk) ==
    IF \E x \in F32 : F32Bytes(x) = chunk
    THEN CHOOSE x \in F32 : F32Bytes(x) = chunk
    ELSE OtherF32

RECURSIVE ConcatBytes(_, _)
ConcatBytes(embedding, i) ==
    IF i > Len(embedding) THEN <<>>
    ELSE F32Bytes(embedding[i]) \o ConcatBytes(embedding, i + 1)

\* mutant: the dtype cast is dropped and a float64 array is serialised
\* (0.0 = 0000000000000000, 1.0 = 3FF0000000000000, -1.0 = BFF0000000000000)
RECURSIVE ConcatBytes64(_, _)
ConcatBytes64(embedding, i) ==
    IF i > Len(embedding) THEN <<>>
    ELSE (CASE embedding[i] = 0  -> << 0, 0, 0, 0, 0, 0, 0, 0 >>
            [] embedding[i] = 1  -> << 0, 0, 0, 0, 0, 0, 240, 63 >>
            [] embedding[i] = -1 -> << 0, 0, 0, 0, 0, 0, 240, 191 >>)
         \o ConcatBytes64(embedding, i + 1)

embedding_to_bytes_float64(embedding) == ConcatBytes64(embedding, 1)

\* np.asarray(embedding, dtype=np.float32).tobytes()
embedding_to_bytes(embedding) == ConcatBytes(embedding, 1)

\* np.frombuffer(data, dtype=np.float32).copy()
bytes_to_embedding(data) ==
    [ i \in 1..(Len(data) \div 4) |-> BytesF32(SubSeq(data, 4 * i - 3, 4 * i)) ]

RECURSIVE DotFrom(_, _, _)
DotFrom(a, b, i) ==
    IF i > Len(a) THEN 0 ELSE a[i] * b[i] + DotFrom(a, b, i + 1)

Dot(a, b) == DotFrom(a, b, 1)

-----------------------------------------------------------------------------
(* Similarity index (embedding_utils.py: build_faiss_index, faiss_search) *)

\* IndexFlatIP(d).add(embeddings): the index holds the rows in input order,
\* row i under id i - 1
build_faiss_index(embeddings) == embeddings

\* index.search([query], k): the answers the library can give for indices[0]
\* of (distances[0], indices[0]), the only part main() reads.  The slots
\* list the min(k, n) best rows by inner product, best first, as 0-based
\* ids, and the slots beyond the number of rows hold -1.  The order of rows
\* of equal score is the library's: the source asks for none and the
\* library is not part of it, so every order of such rows is an answer.
faiss_search(index, query_embedding, k) ==
    LET scores == [ i \in 1..Len(index) |-> Dot(index[i], query_embedding) ]
        m == IF k <= Len(index) THEN k ELSE Len(index)
        orders ==
            { o \in [ 1..m -> 1..Len(index) ] :
                /\ \A a, b \in 1..m : a < b => o[a] # o[b] /\ scores[o[a]] >= scores[o[b]]
                /\ \A row \in 1..Len(index) :
                       (\A a \in 1..m : o[a] # row) =>
                           \A a \in 1..m : scores[o[a]] >= scores[row] }
    IN  { [ r \in 1..k |-> IF r <= m THEN o[r] - 1 ELSE -1 ] : o \in orders }

-----------------------------------------------------------------------------
(* Embedding provider (embedding_utils.py: embed_texts) *)

DEFAULT_MODEL == "intfloat/e5-base-v2"
MINILM_MODEL == "sentence-transformers/all-MiniLM-L6-v2"
Models == { DEFAULT_MODEL, MINILM_MODEL }

\* texts of corpus records and of the reference document; " " is a blank body
Descriptions == { "go", "chef", " " }
ResumeTexts == { "go", "chef" }

\* str.strip() / SQL TRIM()
Strip(text) == IF text = " " THEN "" ELSE text

\* "e5" in model_name.lower()
should_use_e5_formatting(name) == name = DEFAULT_MODEL

format_for_e5(texts, is_query) ==
    LET prefix == IF is_query THEN "query: " ELSE "passage: "
    IN  [ i \in 1..Len(texts) |-> prefix \o Strip(texts[i]) ]

Axis(k, sign) == [ i \in 1..Dim |-> IF i = k THEN sign ELSE 0 ]

\* model.encode(text, normalize_embeddings=True) of the SentenceTransformer
\* loaded for `name`: a fixed function of (model, prepared text) into the
\* unit vectors.  The e5 model separates "go" from "chef"; the MiniLM model
\* puts "chef" opposite to "go".
ModelEncode(name, prepared) ==
    IF name = DEFAULT_MODEL
    THEN CASE prepared \in { "query: go", "passage: go" }     -> Axis(1, 1)
           [] prepared \in { "query: chef", "passage: chef" } -> Axis(2, 1)
           [] OTHER                                             -> Axis(2, -1)
    ELSE CASE prepared = "go"   -> Axis(1, 1)
           [] prepared = "chef" -> Axis(1, -1)
           [] OTHER             -> Axis(2, 1)

embed_texts(name, texts, is_query) ==
    LET prepared_texts == IF should_use_e5_formatting(name)
                          THEN format_for_e5(texts, is_query)
                          ELSE texts
    IN  [ i \in 1..Len(prepared_texts) |-> ModelEncode(name, prepared_texts[i]) ]

-----------------------------------------------------------------------------
(* Refinement responses and their parsing (llm_refiner.py) *)

\* A JSON value / a parsed float, tagged so that values of different types
\* are never compared: a number (in tenths), a string, a boolean, or null.
Num(n) == [ t |-> "num", n |-> n ]
Str(s) == [ t |-> "str", s |-> s ]
Bool(b) == [ t |-> "bool", b |-> b ]
Null == [ t |-> "null" ]
\* the value of a key that the object does not have: entry.get gives None
\* for it, and the text holds neither the key nor a value
Absent == [ t |-> "absent" ]

\* an element that is not a JSON object: a number or a string in an array,
\* a key of a JSON object that is iterated
NonObject == [ t |-> "nonobject" ]

\* A provider's response text, by its shape:
\*   kind "blank"   : empty or whitespace-only text
\*   kind "json"    : text that json.loads accepts as an array, whose
\*                    elements are the entries
\*   kind "relaxed" : text that json.loads rejects, holding the listed
\*                    "job_id": "...", "refined_score": <raw> fragments
\*   kind "object"  : text that json.loads accepts as a single JSON object,
\*                    its field `object`; the entries are what iterating it
\*                    yields, one element that is not an object per key
\*   kind "scalar"  : text that json.loads accepts as a number, true, false
\*                    or null
\* An object is written as it is listed here: the key job_id with its value
\* (no such key when the value is None), then the key refined_score with its
\* value (no such key when the value is Absent).  An object with a field
\* JOB_ID is written with that key in place of job_id, and an object with a
\* field score_first is written with refined_score before job_id.
Entry(id, score) == [ job_id |-> id, refined_score |-> score ]
Text(kind, entries) == [ kind |-> kind, entries |-> entries ]

RespBlank == Text("blank", <<>>)
RespOne == Text("json", << Entry("1", Num(7)) >>)
RespMixed == Text("json", << Entry("1", Num(7)), Entry("2", Str("bad")) >>)
RespNoId == Text("json", << Entry(None, Num(5)), Entry("2", Num(0)) >>)
RespEmptyArray == Text("json", <<>>)
RespOutside == Text("json", << Entry("9", Num(15)) >>)
RespFenced == Text("relaxed", << Entry("2", Str("007")), Entry("1", Str("nan")) >>)
RespGarbage == Text("relaxed", <<>>)
\* {"job_id": "1", "refined_score": 0.7} and {}
RespObject ==
    [ kind |-> "object", entries |-> << NonObject, NonObject >>,
      object |-> Entry("1", Num(7)) ]
RespEmptyObject ==
    [ kind |-> "object", entries |-> <<>>, object |-> Entry(None, Absent) ]
RespScalar == Text("scalar", <<>>)
\* [{"JOB_ID": "1", "refined_score": 0.7}]: valid JSON whose object has no
\* key job_id; the pattern of the relaxed tier ignores letter case
RespUpperKey ==
    Text("json", << [ job_id |-> None, refined_score |-> Num(7), JOB_ID |-> "1" ] >>)

Responses ==
    { RespBlank, RespOne, RespMixed, RespNoId, RespEmptyArray, RespOutside,
      RespFenced, RespGarbage }

\* The characters of the score literals and string values that occur in the
\* responses below.
Chars(s) ==
    CASE s = "007"       -> << "0", "0", "7" >>
      [] s = "00.5"      -> << "0", "0", ".", "5" >>
      [] s = "000"       -> << "0", "0", "0" >>
      [] s = "0"         -> << "0" >>
      [] s = "0.5"       -> << "0", ".", "5" >>
      [] s = "0.7"       -> << "0", ".", "7" >>
      [] s = "\"0.7\""   -> << "\"", "0", ".", "7", "\"" >>
      [] s = "1.5"       -> << "1", ".", "5" >>
      [] s = "7"         -> << "7" >>
      [] s = "nan"       -> << "n", "a", "n" >>
      [] s = "NaN"       -> << "N", "a", "N" >>
      [] s = "\"nan\""   -> << "\"", "n", "a", "n", "\"" >>
      [] s = "None"      -> << "N", "o", "n", "e" >>
      [] s = "null"      -> << "n", "u", "l", "l" >>
      [] s = "true"      -> << "t", "r", "u", "e" >>
      [] s = "false"     -> << "f", "a", "l", "s", "e" >>
      [] s = "bad"       -> << "b", "a", "d" >>
      [] s = "\"bad\""   -> << "\"", "b", "a", "d", "\"" >>

Digits == { "0", "1", "2", "3", "4", "5", "6", "7", "8", "9" }

\* the integer a string of digits spells (0 for the empty string)
RECURSIVE DecimalValue(_)
DecimalValue(cs) ==
    IF cs = <<>> THEN 0
    ELSE LET c == cs[Len(cs)]
             d == CASE c = "0" -> 0 [] c = "1" -> 1 [] c = "2" -> 2 [] c = "3" -> 3
                    [] c = "4" -> 4 [] c = "5" -> 5 [] c = "6" -> 6 [] c = "7" -> 7
                    [] c = "8" -> 8 [] c = "9" -> 9
         IN  10 * DecimalValue(SubSeq(cs, 1, Len(cs) - 1)) + d

\* str.lower(), on the letters that occur
Lower(cs) ==
    [ i \in 1..Len(cs) |->
        CASE cs[i] = "N" -> "n" [] cs[i] = "A" -> "a" [] cs[i] = "O" -> "o"
          [] cs[i] = "E" -> "e" [] OTHER -> cs[i] ]

\* float() of a text: an optional sign, then digits with at most one point
\* and at least one digit, or nan in any letter case; anything else raises
\* ValueError (Null).  Values are in tenths; the literals that occur carry
\* at most one digit after the point.
FloatText(cs) ==
    LET signed == cs # <<>> /\ cs[1] \in { "+", "-" }
        body == IF signed THEN Tail(cs) ELSE cs
        sign == IF signed /\ cs[1] = "-" THEN -1 ELSE 1
        dots == { i \in 1..Len(body) : body[i] = "." }
        before == IF dots = {} THEN body
                  ELSE SubSeq(body, 1, (CHOOSE d \in dots : TRUE) - 1)
        after == IF dots = {} THEN <<>>
                 ELSE SubSeq(body, (CHOOSE d \in dots : TRUE) + 1, Len(body))
    IN  IF Lower(body) = << "n", "a", "n" >> THEN Num("nan")
        ELSE IF /\ Cardinality(dots) <= 1
                /\ Range(before) \cup Range(after) \subseteq Digits
                /\ Len(before) + Len(after) > 0
             THEN Num(sign * (10 * DecimalValue(before)
                              + (IF after = <<>> THEN 0 ELSE DecimalValue(<< after[1] >>))))
             ELSE Null

\* float(score) of the strict loop: a JSON number is taken, a JSON string is
\* taken when float() accepts its text, true is 1.0 and false is 0.0,
\* anything else raises and is skipped
StrictValue(score) ==
    CASE score.t = "num" -> score
      [] score.t = "str" -> FloatText(Chars(score.s))
      [] score.t = "bool" -> IF score.b THEN Num(10) ELSE Num(0)
      [] OTHER -> Null

\* a score literal that keeps its surrounding quotes
KeepQuotes(cs) == cs

\* score_raw.strip('"'): the quotes at both ends are dropped
StripQuotes(cs) ==
    LET keep == { i \in 1..Len(cs) : cs[i] # "\"" }
    IN  IF keep = {} THEN <<>>
        ELSE SubSeq(cs, CHOOSE i \in keep : \A j \in keep : i <= j,
                        CHOOSE i \in keep : \A j \in keep : i >= j)

\* lines 193-198: 0+ becomes "0"; 0+[0-9]+(\.[0-9]+)? loses its leading
\* zeros and gets one back when what is left starts with the point
CollapseZeros(cs) ==
    LET dots == { i \in 1..Len(cs) : cs[i] = "." }
        before == IF dots = {} THEN cs
                  ELSE SubSeq(cs, 1, (CHOOSE d \in dots : \A e \in dots : d <= e) - 1)
        after == IF dots = {} THEN <<>>
                 ELSE SubSeq(cs, (CHOOSE d \in dots : \A e \in dots : d <= e) + 1, Len(cs))
        nonzero == { i \in 1..Len(cs) : cs[i] # "0" }
        stripped == IF nonzero = {} THEN <<>>
                    ELSE SubSeq(cs, CHOOSE i \in nonzero : \A j \in nonzero : i <= j, Len(cs))
    IN  IF cs # <<>> /\ Range(cs) = { "0" } THEN << "0" >>
        ELSE IF /\ Len(before) >= 2
                /\ before[1] = "0"
                /\ Range(before) \subseteq Digits
                /\ dots # {} => (after # <<>> /\ Range(after) \subseteq Digits)
             THEN IF stripped[1] = "." THEN << "0" >> \o stripped ELSE stripped
             ELSE cs

\* the raw score literal of a relaxed fragment (score_raw, already stripped
\* of white space), after strip('"'), the nan/none test, the leading-zero
\* rewriting and float(): the parsed value, or Null when the fragment is
\* skipped
RelaxedValue(score) ==
    LET normalized == StripQuotes(Chars(score.s))
    IN  IF Lower(normalized) \in { << "n", "a", "n" >>, << "n", "o", "n", "e" >> }
        THEN Null
        ELSE FloatText(CollapseZeros(normalized))

RECURSIVE RelaxedFrom(_, _, _)
RelaxedFrom(entries, i, refined) ==
    IF i > Len(entries) THEN refined
    ELSE LET e == entries[i]
             v == RelaxedValue(e.refined_score)
         IN  IF Strip(e.job_id) = "" \/ v = Null
             THEN RelaxedFrom(entries, i + 1, refined)
             ELSE RelaxedFrom(entries, i + 1, DictSet(refined, Strip(e.job_id), v.n))

parse_relaxed_scores(response) == RelaxedFrom(response.entries, 1, EmptyDict)

\* mutant: one entry that is skipped discards the whole response
RECURSIVE StrictFromAllOrNothing(_, _, _)
StrictFromAllOrNothing(entries, i, refined) ==
    IF i > Len(entries) THEN refined
    ELSE IF entries[i] = NonObject THEN refined
    ELSE LET e == entries[i]
             v == StrictValue(e.refined_score)
         IN  IF e.job_id \in { None, "" } \/ v = Null
             THEN EmptyDict
             ELSE StrictFromAllOrNothing(entries, i + 1, DictSet(refined, e.job_id, v.n))

\* the strict loop: an entry without job_id (missing or empty) is skipped,
\* and so is one whose refined_score float() rejects (None: TypeError,
\* "bad": ValueError); at an element without .get the loop is left by the
\* exception, with `refined` as it stands
RECURSIVE StrictFrom(_, _, _)
StrictFrom(entries, i, refined) ==
    IF i > Len(entries) THEN refined
    ELSE IF entries[i] = NonObject THEN refined
    ELSE LET e == entries[i]
             v == StrictValue(e.refined_score)
         IN  IF e.job_id \in { None, "" } \/ v = Null
             THEN StrictFrom(entries, i + 1, refined)
             ELSE StrictFrom(entries, i + 1, DictSet(refined, e.job_id, v.n))

\* whether an exception leaves _parse_refined_scores: `for entry in payload`
\* on a number or null (TypeError), entry.get on an element that is not an
\* object (AttributeError); neither is caught
ParseRaises(response) ==
    \/ response.kind = "scalar"
    \/ /\ response.kind \in { "json", "object" }
       /\ \E i \in 1..Len(response.entries) : response.entries[i] = NonObject

\* The fragments the pattern of the relaxed tier finds in a response text:
\* the key job_id in any letter case with a non-empty string as its value,
\* followed inside the same object ([^}]*? does not pass a closing brace) by
\* the key refined_score, whose value is taken as it is written, up to the
\* next comma or closing bracket.  An object without the key refined_score,
\* or with refined_score written before job_id, gives no fragment, and
\* neither does a blank text or one that holds a number, true, false or
\* null.
RelaxedView(response) ==
    LET Identity(e) == IF "JOB_ID" \in DOMAIN e THEN e.JOB_ID ELSE e.job_id
        Written(v) ==
            CASE v.t = "num" /\ v.n = 0  -> "0"
              [] v.t = "num" /\ v.n = 5  -> "0.5"
              [] v.t = "num" /\ v.n = 7  -> "0.7"
              [] v.t = "num" /\ v.n = 15 -> "1.5"
              [] v.t = "str" -> "\"" \o v.s \o "\""
              [] v.t = "bool" -> IF v.b THEN "true" ELSE "false"
              [] v.t = "null" -> "null"
        Found(e) ==
            /\ e # NonObject
            /\ "score_first" \notin DOMAIN e
            /\ Identity(e) \notin { None, "" }
            /\ e.refined_score # Absent
        written ==
            CASE response.kind = "json"   -> response.entries
              [] response.kind = "object" -> << response.object >>
              [] OTHER                    -> <<>>
        objects == SelectSeq(written, Found)
    IN  IF response.kind = "relaxed" THEN response.entries
        ELSE [ i \in 1..Len(objects) |->
                 Entry(Identity(objects[i]), Str(Written(objects[i].refined_score))) ]

\* the mapping _parse_refined_scores returns, when it returns
parse_refined_scores(response) ==
    CASE response.kind = "blank"   -> EmptyDict
      [] response.kind = "relaxed" -> parse_relaxed_scores(response)
      [] OTHER                     -> StrictFrom(response.entries, 1, EmptyDict)

\* What one provider does when its dispatch function runs: its client
\* package is missing, the call raises (network failure, timeout), the call
\* never returns (no timeout is passed to it), or the call returns a
\* response text, which can be one _parse_refined_scores raises on (a JSON
\* object, a number).
ImportError == Text("ImportError", <<>>)
CallError == Text("CallError", <<>>)
NoAnswer == Text("NoAnswer", <<>>)
Outcomes ==
    { ImportError, CallError, NoAnswer } \cup Responses \cup { RespObject, RespScalar }

\* os.environ.get(KEY): missing, set to the empty string, or set
KeyValues == { None, "", "key" }
Truthy(v) == v # None /\ v # ""

\* _refine_with_ollama(jobs, model_name) under outcome `out`, when it
\* returns
refine_with_ollama(out) ==
    IF out \in { ImportError, CallError } THEN EmptyDict
    ELSE parse_refined_scores(out)

\* _refine_with_gemini(jobs, model_name) under outcome `out` and the value
\* `api_key` of GOOGLE_API_KEY, when it returns
refine_with_gemini(out, api_key) ==
    IF out = ImportError THEN EmptyDict
    ELSE IF ~Truthy(api_key) THEN EmptyDict
    ELSE IF out = CallError THEN EmptyDict
    ELSE parse_refined_scores(out)

\* _refine_with_openai(jobs, model_name) under outcome `out` and the value
\* `api_key` of OPENAI_API_KEY, when it returns
refine_with_openai(out, api_key) ==
    IF out = ImportError THEN EmptyDict
    ELSE IF ~Truthy(api_key) THEN EmptyDict
    ELSE IF out = CallError THEN EmptyDict
    ELSE parse_refined_scores(out)

\* the values of the provider argument; "claude" is no provider's name
ProviderArgs == { None, "", "ollama", "gemini", "Gemini", "openai", "claude" }

\* (provider or "").lower()
NormalizeProvider(provider) ==
    CASE provider = None     -> ""
      [] provider = "Gemini" -> "gemini"
      [] OTHER               -> provider

KnownProviders == { "gemini", "openai", "ollama", "" }

\* lines 234-247: where refine_scores goes for a provider argument: "skip"
\* (unknown name: warning, empty mapping), the named dispatch function, or
\* the auto-detect chain
Route(provider) ==
    IF NormalizeProvider(provider) \notin KnownProviders THEN "skip"
    ELSE IF NormalizeProvider(provider) = "" THEN "auto"
    ELSE NormalizeProvider(provider)

-----------------------------------------------------------------------------
(* State *)

VARIABLES
    \* the SQLite store (sql/__init__.py)
    tbl_job_postings,       \* rows [job_id, description] in rowid order
    tbl_job_embeddings,     \* <<job_id, model_name>> -> embedding blob
    tbl_resume_embeddings,  \* <<resume_path, model_name>> -> embedding blob
    tbl_scores,             \* job_id -> [score, llm_refined_score]
    resume_file,            \* cleaned text of the resume file, None if missing
    \* one invocation of main() (ranking/rank_jobs.py)
    pc,                     \* position of main()
    args,                   \* its options: model_name, use_llm, llm_provider, llm_top_n
    resume_text,
    jobs,                   \* List[JobDescription]
    resume_embedding,
    job_embeddings,         \* the corpus matrix, row i for jobs[i]
    embed_calls,            \* the embed_texts calls of this invocation
    base_scores_map,
    ranked_jobs,            \* [job, score] in rank order
    refined_scores,
    persist_i,              \* index in jobs of the next score write
    exit_status,            \* how the last invocation ended
    report,                 \* rows printed by _print_top_results
    runs,                   \* invocations started so far
    edits,                  \* edits of the stored texts so far
    \* one call of refine_scores() (llm_refiner.py)
    r_pc,                   \* position of refine_scores()
    r_jobs,                 \* its candidates
    r_provider,             \* its provider argument
    env,                    \* GOOGLE_API_KEY and OPENAI_API_KEY of the process
    local_result,           \* the local provider's mapping in the auto-detect chain
    attempted,              \* dispatch functions entered, in order
    api_calls,              \* providers whose network call was made, in order
    answered,               \* outcome of the dispatch function that gave the result
    r_result,               \* the mapping returned
    \* history
    cache_before,           \* both embedding tables and the job postings when
                            \* the invocation started
    origin,                 \* subject key -> text embedded and vector returned
                            \* when its cache entry was created
    \* two invocations of main() loading the job embeddings at the same time
    loaders,                \* each one's position and locals, and the upserts
                            \* committed so far, in commit order
    \* one call of tailor_resume_agentic() (agents/tailor.py)
    tailor,                 \* its position, locals and the attempts made
    \* the locals of _load_job_embeddings() between its statements
    loading                 \* matrix, missing_jobs, new_embeddings and the
                            \* turn of the upsert loop

dbVars == << tbl_job_postings, tbl_job_embeddings, tbl_resume_embeddings,
             tbl_scores, resume_file >>
mainVars == << pc, args, resume_text, jobs, resume_embedding, job_embeddings,
               embed_calls, base_scores_map, ranked_jobs, refined_scores,
               persist_i, exit_status, report, runs, edits >>
refineVars == << r_pc, r_jobs, r_provider, env, local_result, attempted,
                 api_calls, answered, r_result >>
histVars == << cache_before, origin >>
agentVars == << loaders, tailor, loading >>
vars == << dbVars, mainVars, refineVars, histVars, agentVars >>

DEFAULT_RESUME_PATH == "config/resume.tex"
DEFAULT_TOP_N == 5
PRINT_LIMIT == 5

NoOutcome == Text("none", <<>>)
NoEnv == [ GOOGLE_API_KEY |-> None, OPENAI_API_KEY |-> None ]
NoArgs == [ model_name |-> DEFAULT_MODEL, use_llm |-> FALSE,
            llm_provider |-> None, llm_top_n |-> DEFAULT_TOP_N ]

JobDescription(id, description) == [ job_id |-> id, description |-> description ]
RankedJob(id, description, score) ==
    [ job_id |-> id, description |-> description, score |-> score ]

\* SQL NULL / Python None in a REAL column, and a stored number
NullScore == <<>>
Real(x) == << x >>

-----------------------------------------------------------------------------
(* The store (sql/__init__.py) *)

\* fetch_job_descriptions: rows with a non-blank description and a job_id
RECURSIVE FetchFrom(_, _)
FetchFrom(rows, i) ==
    IF i > Len(rows) THEN <<>>
    ELSE IF Strip(rows[i].description) # "" /\ rows[i].job_id \notin { None, "" }
         THEN << rows[i] >> \o FetchFrom(rows, i + 1)
         ELSE FetchFrom(rows, i + 1)

fetch_job_descriptions(rows) == FetchFrom(rows, 1)

\* fetch_job_embeddings: the rows of the model among the given ids
fetch_job_embeddings(tbl, job_ids, name) ==
    [ id \in { j \in job_ids : << j, name >> \in DOMAIN tbl } |-> tbl[<< id, name >>] ]

\* mutant: the conflict target is job_id alone, so the row of another model
\* is replaced
upsert_job_embedding_by_job(tbl, id, name, blob) ==
    [ k \in { x \in DOMAIN tbl : x[1] # id } \cup { << id, name >> } |->
        IF k = << id, name >> THEN blob ELSE tbl[k] ]

\* INSERT ... ON CONFLICT(job_id, model_name) DO UPDATE SET embedding
upsert_job_embedding(tbl, id, name, blob) == DictSet(tbl, << id, name >>, blob)

\* INSERT ... ON CONFLICT(resume_path, model_name) DO UPDATE SET embedding
upsert_resume_embedding(tbl, path, name, blob) == DictSet(tbl, << path, name >>, blob)

\* mutant: a row is written only when the run has a refined score for it
upsert_score_refined_only(tbl, id, score, llm_refined_score) ==
    IF llm_refined_score = NullScore THEN tbl
    ELSE DictSet(tbl, id, [ score |-> Real(score),
                            llm_refined_score |-> llm_refined_score ])

\* mutant: the refined score is overwritten with the value handed in, null
\* included (llm_refined_score = excluded.llm_refined_score)
upsert_score_overwrite(tbl, id, score, llm_refined_score) ==
    DictSet(tbl, id, [ score |-> Real(score), llm_refined_score |-> llm_refined_score ])

\* INSERT ... ON CONFLICT(job_id) DO UPDATE SET score = excluded.score,
\* llm_refined_score = COALESCE(excluded.llm_refined_score, llm_refined_score)
upsert_score(tbl, id, score, llm_refined_score) ==
    DictSet(tbl, id,
            [ score |-> Real(score),
              llm_refined_score |->
                  IF llm_refined_score # NullScore THEN llm_refined_score
                  ELSE IF id \in DOMAIN tbl THEN tbl[id].llm_refined_score
                  ELSE NullScore ])

\* mutant: the cached blob is never used
CacheHitNever(cached, key) == FALSE

\* `if blob:` / `if cached:` on a fetched embedding
CacheHit(cached, key) == key \in DOMAIN cached /\ Len(cached[key]) > 0

-----------------------------------------------------------------------------
(* refine_scores (llm_refiner.py), one action per dispatch step *)

RefineReturn(result, out) ==
    /\ r_result' = result
    /\ answered' = out
    /\ r_pc' = "returned"

\* a gateway without the test for an empty candidate list
NoCandidatesIgnored(js) == FALSE

\* line 231: `if not jobs`
NoCandidates(js) == js = <<>>

\* lines 231-247: the empty candidate list, the unknown provider, and the
\* dispatch on the normalised provider name
RefineEnter ==
    /\ r_pc = "called"
    /\ IF NoCandidates(r_jobs)
       THEN RefineReturn(EmptyDict, NoOutcome)
       ELSE IF Route(r_provider) = "skip"
            THEN RefineReturn(EmptyDict, NoOutcome)
            ELSE /\ r_pc' = Route(r_provider)
                 /\ UNCHANGED << r_result, answered >>
    /\ UNCHANGED << r_jobs, r_provider, env, attempted, api_calls, local_result >>
    /\ UNCHANGED << dbVars, mainVars, histVars >>
    /\ UNCHANGED agentVars

\* where the auto-detect chain continues after an empty local result
\* (lines 254-260)
AutoNext(e) ==
    IF Truthy(e.GOOGLE_API_KEY) THEN "gemini"
    ELSE IF Truthy(e.OPENAI_API_KEY) THEN "openai"
    ELSE "returned"

\* mutant: the local result is never used
LocalResultIgnored(result) == FALSE

\* whether the empty local result ends the call (line 251: `if local_result`)
LocalResultUsed(result) == result # EmptyDict

\* the exception of _parse_refined_scores leaves the dispatch function,
\* which calls it outside its try block (lines 78, 110, 141), and leaves
\* refine_scores, which has no handler
RefineRaise(out) ==
    /\ r_pc' = "raised"
    /\ answered' = out
    /\ UNCHANGED r_result

\* line 241 (explicit) and lines 250-260 (auto-detect).  ollama.chat
\* (line 71) is called without a timeout and its client sets none: when the
\* server accepts the request and never answers, the call does not return
\* and refine_scores stays in it.
AttemptOllama ==
    /\ r_pc \in { "ollama", "auto" }
    /\ \E out \in Outcomes :
        /\ attempted' = Append(attempted, "ollama")
        /\ api_calls' = IF out # ImportError
                        THEN Append(api_calls, "ollama") ELSE api_calls
        /\ IF out = NoAnswer
           THEN /\ r_pc' = "waiting"
                /\ UNCHANGED << local_result, answered, r_result >>
           ELSE IF ParseRaises(out)
           THEN /\ RefineRaise(out)
                /\ UNCHANGED local_result
           ELSE LET result == refine_with_ollama(out)
                IN  /\ local_result' = IF r_pc = "auto" THEN result ELSE local_result
                    /\ IF r_pc = "ollama" \/ LocalResultUsed(result)
                       THEN RefineReturn(result, out)
                       ELSE /\ r_pc' = AutoNext(env)
                            /\ r_result' = EmptyDict
                            /\ answered' = NoOutcome
    /\ UNCHANGED << r_jobs, r_provider, env >>
    /\ UNCHANGED << dbVars, mainVars, histVars >>
    /\ UNCHANGED agentVars

\* lines 244 and 255.  generate_content (line 104) is called without a
\* timeout: when it gets no answer and the client ends the wait with no
\* error of its own, the call does not return.
AttemptGemini ==
    /\ r_pc = "gemini"
    /\ \E out \in Outcomes :
        /\ attempted' = Append(attempted, "gemini")
        /\ api_calls' = IF out # ImportError /\ Truthy(env.GOOGLE_API_KEY)
                        THEN Append(api_calls, "gemini") ELSE api_calls
        /\ IF Truthy(env.GOOGLE_API_KEY) /\ out = NoAnswer
           THEN /\ r_pc' = "waiting"
                /\ UNCHANGED << answered, r_result >>
           ELSE IF Truthy(env.GOOGLE_API_KEY) /\ ParseRaises(out)
           THEN RefineRaise(out)
           ELSE RefineReturn(refine_with_gemini(out, env.GOOGLE_API_KEY), out)
    /\ UNCHANGED << r_jobs, r_provider, env, local_result >>
    /\ UNCHANGED << dbVars, mainVars, histVars >>
    /\ UNCHANGED agentVars

\* lines 247 and 257.  responses.create (lines 133-135) is called without a
\* timeout: when it gets no answer and the client ends the wait with no
\* error of its own, the call does not return.
AttemptOpenai ==
    /\ r_pc = "openai"
    /\ \E out \in Outcomes :
        /\ attempted' = Append(attempted, "openai")
        /\ api_calls' = IF out # ImportError /\ Truthy(env.OPENAI_API_KEY)
                        THEN Append(api_calls, "openai") ELSE api_calls
        /\ IF Truthy(env.OPENAI_API_KEY) /\ out = NoAnswer
           THEN /\ r_pc' = "waiting"
                /\ UNCHANGED << answered, r_result >>
           ELSE IF Truthy(env.OPENAI_API_KEY) /\ ParseRaises(out)
           THEN RefineRaise(out)
           ELSE RefineReturn(refine_with_openai(out, env.OPENAI_API_KEY), out)
    /\ UNCHANGED << r_jobs, r_provider, env, local_result >>
    /\ UNCHANGED << dbVars, mainVars, histVars >>
    /\ UNCHANGED agentVars

RefineIdle ==
    /\ r_pc = "idle"
    /\ r_jobs = <<>>
    /\ r_provider = None
    /\ env = NoEnv
    /\ attempted = <<>>
    /\ api_calls = <<>>
    /\ answered = NoOutcome
    /\ r_result = EmptyDict
    /\ local_result = EmptyDict

-----------------------------------------------------------------------------
(* main() (ranking/rank_jobs.py), one action per stage *)

NoLocals ==
    /\ args' = NoArgs
    /\ resume_text' = ""
    /\ jobs' = <<>>
    /\ resume_embedding' = <<>>
    /\ job_embeddings' = <<>>
    /\ embed_calls' = <<>>
    /\ base_scores_map' = EmptyDict
    /\ ranked_jobs' = <<>>
    /\ refined_scores' = EmptyDict
    /\ persist_i' = 1
    /\ report' = <<>>

NoRefine ==
    /\ r_pc' = "idle"
    /\ r_jobs' = <<>>
    /\ r_provider' = None
    /\ env' = NoEnv
    /\ attempted' = <<>>
    /\ api_calls' = <<>>
    /\ answered' = NoOutcome
    /\ r_result' = EmptyDict
    /\ local_result' = EmptyDict

\* _load_jobs_from_db: JobDescription(str(job_id), str(description)) per row
load_jobs_from_db(rows) ==
    LET fetched == fetch_job_descriptions(rows)
    IN  [ i \in 1..Len(fetched) |-> JobDescription(fetched[i].job_id, fetched[i].description) ]

\* mutant: an empty resume text does not end the invocation
StartFailureEmptyResumeOk(resume, rows, model_loads) ==
    IF resume = None THEN "FileNotFoundError"
    ELSE IF load_jobs_from_db(rows) = <<>> THEN "BadParameter: jobs"
    ELSE IF ~model_loads THEN "model load failed"
    ELSE "none"

\* lines 221-229: the exception that ends main() before any embedding, or
\* "none": read_text of a missing or unreadable resume file, BadParameter
\* for a resume that is empty after cleaning, BadParameter for a corpus
\* without a usable record, the exception of SentenceTransformer(model_name)
StartFailure(resume, rows, model_loads) ==
    IF resume = None THEN "FileNotFoundError"
    ELSE IF resume = "" THEN "BadParameter: resume"
    ELSE IF load_jobs_from_db(rows) = <<>> THEN "BadParameter: jobs"
    ELSE IF ~model_loads THEN "model load failed"
    ELSE "none"

\* lines 217-229: the resume is read, the corpus is fetched and the embedding
\* model is loaded; each of the three can end the invocation
StartRun(a, model_loads) ==
    /\ pc = "idle"
    /\ runs < MaxRuns
    /\ runs' = runs + 1
    /\ LET failure == StartFailure(resume_file, tbl_job_postings, model_loads)
       IN  IF failure # "none"
           THEN /\ pc' = "exited"
                /\ exit_status' = failure
                /\ UNCHANGED << args, resume_text, jobs, cache_before >>
           ELSE /\ pc' = "load_resume"
                /\ exit_status' = "running"
                /\ args' = a
                /\ resume_text' = resume_file
                /\ jobs' = load_jobs_from_db(tbl_job_postings)
                /\ cache_before' = [ jobs |-> tbl_job_embeddings,
                                     resume |-> tbl_resume_embeddings,
                                     postings |-> tbl_job_postings ]
    /\ UNCHANGED << resume_embedding, job_embeddings, embed_calls, base_scores_map,
                    ranked_jobs, refined_scores, persist_i, report, edits >>
    /\ UNCHANGED << dbVars, refineVars, origin >>
    /\ UNCHANGED agentVars

EmbedCall(subjects, texts, is_query) ==
    [ subjects |-> subjects, texts |-> texts, is_query |-> is_query ]

Origin(text, vector) == [ text |-> text, vector |-> vector ]

\* _load_resume_embedding, lines 134-144: fetch_resume_embedding reads the
\* cached blob in a connection of its own; a blob that is there is returned,
\* otherwise the resume is embedded
LoadResumeFetch ==
    /\ pc = "load_resume"
    /\ LET key == << DEFAULT_RESUME_PATH, args.model_name >>
       IN  IF CacheHit(tbl_resume_embeddings, key)
           THEN /\ resume_embedding' = bytes_to_embedding(tbl_resume_embeddings[key])
                /\ pc' = "load_jobs"
                /\ UNCHANGED embed_calls
           ELSE /\ resume_embedding' =
                       embed_texts(args.model_name, << resume_text >>, TRUE)[1]
                /\ pc' = "upsert_resume"
                /\ embed_calls' = Append(embed_calls,
                       EmbedCall(<< DEFAULT_RESUME_PATH >>, << resume_text >>, TRUE))
    /\ UNCHANGED << args, resume_text, jobs, job_embeddings, base_scores_map,
                    ranked_jobs, refined_scores, persist_i, exit_status, report,
                    runs, edits >>
    /\ UNCHANGED << dbVars, refineVars, histVars >>
    /\ UNCHANGED agentVars

\* _load_resume_embedding, lines 145-148: upsert_resume_embedding stores the
\* new embedding in a connection of its own, and the embedding is returned
LoadResumeUpsert ==
    /\ pc = "upsert_resume"
    /\ LET key == << DEFAULT_RESUME_PATH, args.model_name >>
       IN  /\ tbl_resume_embeddings' =
                  upsert_resume_embedding(tbl_resume_embeddings,
                      DEFAULT_RESUME_PATH, args.model_name,
                      embedding_to_bytes(resume_embedding))
           /\ origin' = IF key \in DOMAIN origin THEN origin
                        ELSE DictSet(origin, key, Origin(resume_text, resume_embedding))
    /\ pc' = "load_jobs"
    /\ UNCHANGED << tbl_job_postings, tbl_job_embeddings, tbl_scores, resume_file >>
    /\ UNCHANGED << args, resume_text, jobs, resume_embedding, job_embeddings,
                    embed_calls, base_scores_map, ranked_jobs, refined_scores,
                    persist_i, exit_status, report, runs, edits >>
    /\ UNCHANGED << refineVars, cache_before >>
    /\ UNCHANGED agentVars

\* lines 111-115: each new embedding is stored under its own job
RECURSIVE UpsertNew(_, _, _, _, _)
UpsertNew(tbl, name, missing_jobs, new_embeddings, i) ==
    IF i > Len(missing_jobs) THEN tbl
    ELSE UpsertNew(upsert_job_embedding(tbl, missing_jobs[i].job_id, name,
                                        embedding_to_bytes(new_embeddings[i])),
                   name, missing_jobs, new_embeddings, i + 1)

RECURSIVE OriginNew(_, _, _, _, _)
OriginNew(org, name, missing_jobs, new_embeddings, i) ==
    IF i > Len(missing_jobs) THEN org
    ELSE LET key == << missing_jobs[i].job_id, name >>
         IN  OriginNew(IF key \in DOMAIN org THEN org
                       ELSE DictSet(org, key,
                                Origin(missing_jobs[i].description, new_embeddings[i])),
                       name, missing_jobs, new_embeddings, i + 1)

\* a batch load that stacks the new vectors first and the cached ones after
\* them instead of following the input order
load_job_embeddings_new_first(tbl, name, js) ==
    LET job_ids == { js[i].job_id : i \in 1..Len(js) }
        cached == fetch_job_embeddings(tbl, job_ids, name)
        cached_jobs == SelectSeq(js, LAMBDA job : CacheHit(cached, job.job_id))
        missing_jobs == SelectSeq(js, LAMBDA job : ~CacheHit(cached, job.job_id))
        missing_texts == [ i \in 1..Len(missing_jobs) |-> missing_jobs[i].description ]
        new_embeddings == embed_texts(name, missing_texts, FALSE)
    IN  [ matrix |-> new_embeddings
                     \o [ i \in 1..Len(cached_jobs) |->
                          bytes_to_embedding(cached[cached_jobs[i].job_id]) ],
          missing_jobs |-> missing_jobs,
          new_embeddings |-> new_embeddings ]

\* _load_job_embeddings: [matrix, missing_jobs, new_embeddings]
load_job_embeddings(tbl, name, js) ==
    LET job_ids == { js[i].job_id : i \in 1..Len(js) }
        cached == fetch_job_embeddings(tbl, job_ids, name)
        missing_jobs == SelectSeq(js, LAMBDA job : ~CacheHit(cached, job.job_id))
        missing_texts == [ i \in 1..Len(missing_jobs) |-> missing_jobs[i].description ]
        new_embeddings == embed_texts(name, missing_texts, FALSE)
        LastMissing(id) ==
            CHOOSE i \in 1..Len(missing_jobs) :
                /\ missing_jobs[i].job_id = id
                /\ \A j \in (i + 1)..Len(missing_jobs) : missing_jobs[j].job_id # id
        embedding_map ==
            [ id \in job_ids |->
                IF CacheHit(cached, id) THEN bytes_to_embedding(cached[id])
                ELSE new_embeddings[LastMissing(id)] ]
    IN  [ matrix |-> [ i \in 1..Len(js) |-> embedding_map[js[i].job_id] ],
          missing_jobs |-> missing_jobs,
          new_embeddings |-> new_embeddings ]

\* the locals of _load_job_embeddings when it is not running
NoLoading == [ matrix |-> << >>, missing_jobs |-> << >>, new_embeddings |-> << >>,
               i |-> 1 ]

\* _load_job_embeddings, lines 88-110: fetch_job_embeddings reads the cached
\* blobs in a connection of its own, the jobs are split into cached and
\* missing, and the missing texts are embedded in one call
LoadJobsFetch ==
    /\ pc = "load_jobs"
    /\ LET loaded == load_job_embeddings(tbl_job_embeddings, args.model_name, jobs)
           ids == [ i \in 1..Len(loaded.missing_jobs) |-> loaded.missing_jobs[i].job_id ]
           texts == [ i \in 1..Len(loaded.missing_jobs) |-> loaded.missing_jobs[i].description ]
       IN  /\ loading' = [ matrix |-> loaded.matrix,
                           missing_jobs |-> loaded.missing_jobs,
                           new_embeddings |-> loaded.new_embeddings,
                           i |-> 1 ]
           /\ embed_calls' = IF loaded.missing_jobs = <<>> THEN embed_calls
                             ELSE Append(embed_calls, EmbedCall(ids, texts, FALSE))
    /\ pc' = "upsert_jobs"
    /\ UNCHANGED << args, resume_text, jobs, resume_embedding, job_embeddings,
                    base_scores_map, ranked_jobs, refined_scores, persist_i,
                    exit_status, report, runs, edits >>
    /\ UNCHANGED << dbVars, refineVars, histVars >>
    /\ UNCHANGED << loaders, tailor >>

\* _load_job_embeddings, lines 111-115: one turn of the loop over the new
\* embeddings; upsert_job_embedding opens a connection of its own and commits
LoadJobsUpsert ==
    /\ pc = "upsert_jobs"
    /\ loading.i <= Len(loading.missing_jobs)
    /\ tbl_job_embeddings' =
           UpsertNew(tbl_job_embeddings, args.model_name,
                     << loading.missing_jobs[loading.i] >>,
                     << loading.new_embeddings[loading.i] >>, 1)
    /\ origin' = OriginNew(origin, args.model_name,
                           << loading.missing_jobs[loading.i] >>,
                           << loading.new_embeddings[loading.i] >>, 1)
    /\ loading' = [ loading EXCEPT !.i = @ + 1 ]
    /\ UNCHANGED << tbl_job_postings, tbl_resume_embeddings, tbl_scores, resume_file >>
    /\ UNCHANGED mainVars
    /\ UNCHANGED << refineVars, cache_before >>
    /\ UNCHANGED << loaders, tailor >>

\* _load_job_embeddings, lines 117-123: the matrix is stacked in the order of
\* the jobs and returned
LoadJobsReturn ==
    /\ pc = "upsert_jobs"
    /\ loading.i > Len(loading.missing_jobs)
    /\ job_embeddings' = loading.matrix
    /\ loading' = NoLoading
    /\ pc' = "rank"
    /\ UNCHANGED << args, resume_text, jobs, resume_embedding, embed_calls,
                    base_scores_map, ranked_jobs, refined_scores, persist_i,
                    exit_status, report, runs, edits >>
    /\ UNCHANGED << dbVars, refineVars, histVars >>
    /\ UNCHANGED << loaders, tailor >>

\* lines 239-242: job_embeddings @ resume_embedding, keyed by job_id
RECURSIVE ScoresMapFrom(_, _, _, _)
ScoresMapFrom(js, matrix, query, i) ==
    IF i = 0 THEN EmptyDict
    ELSE DictSet(ScoresMapFrom(js, matrix, query, i - 1),
                 js[i].job_id, Dot(matrix[i], query))

\* lines 244-249: the jobs in the order of the index's ids, each with its
\* base score; an id outside the corpus is skipped
RECURSIVE RankedFrom(_, _, _, _)
RankedFrom(js, scores_map, faiss_indices, r) ==
    IF r > Len(faiss_indices) THEN <<>>
    ELSE IF faiss_indices[r] < 0 \/ faiss_indices[r] >= Len(js)
         THEN RankedFrom(js, scores_map, faiss_indices, r + 1)
         ELSE << [ job |-> js[faiss_indices[r] + 1],
                   score |-> scores_map[js[faiss_indices[r] + 1].job_id] ] >>
              \o RankedFrom(js, scores_map, faiss_indices, r + 1)

\* a pipeline that goes from ranking straight to the persist loop
AfterRankPersist(use_llm) == "persist"

\* lines 251-263: the refinement block comes before the persist loop and is
\* entered under `if use_llm`
AfterRank(use_llm) == IF use_llm THEN "refine" ELSE "persist"

\* lines 236-249
Rank ==
    /\ pc = "rank"
    /\ LET faiss_index == build_faiss_index(job_embeddings)
           search_k == Len(jobs)
           scores_map == ScoresMapFrom(jobs, job_embeddings, resume_embedding, Len(jobs))
       IN  /\ base_scores_map' = scores_map
           /\ \E faiss_indices \in faiss_search(faiss_index, resume_embedding, search_k) :
                  ranked_jobs' = RankedFrom(jobs, scores_map, faiss_indices, 1)
    /\ pc' = AfterRank(args.use_llm)
    /\ UNCHANGED << args, resume_text, jobs, resume_embedding, job_embeddings,
                    embed_calls, refined_scores, persist_i, exit_status, report,
                    runs, edits >>
    /\ UNCHANGED << dbVars, refineVars, histVars >>
    /\ UNCHANGED agentVars

Max(a, b) == IF a >= b THEN a ELSE b
Min(a, b) == IF a <= b THEN a ELSE b

\* a slice that takes every ranked record
prepare_llm_jobs_all(ranked, top_n) ==
    [ i \in 1..Len(ranked) |->
        RankedJob(ranked[i].job.job_id, ranked[i].job.description, ranked[i].score) ]

\* _prepare_llm_jobs: ranked[:top_n] as RankedJob
prepare_llm_jobs(ranked, top_n) ==
    [ i \in 1..Min(top_n, Len(ranked)) |->
        RankedJob(ranked[i].job.job_id, ranked[i].job.description, ranked[i].score) ]

\* refine_scores of the ranking package (line 24: from .llm_refiner import
\* RankedJob, refine_scores), as main() calls it: refine_scores(jobs,
\* resume_text, provider=..., model_name=...).  That module, ranking/
\* llm_refiner.py, is not among the sources; refine_scores of llm_refiner.py
\* has no resume_text parameter and is not the function this import names.
\* The gateway is entered with the candidates and the provider; the resume
\* text goes into the prompt, on which no modelled outcome depends, and from
\* there the gateway chooses its provider and parses the response as
\* llm_refiner.py does.
refine_scores(jobs_arg, text, provider) ==
    [ jobs |-> jobs_arg, resume_text |-> text, provider |-> provider ]

\* lines 252-260: the call of refine_scores, in the environment of the process
CallRefine ==
    /\ pc = "refine"
    /\ r_pc = "idle"
    /\ \E g \in KeyValues, o \in KeyValues :
           env' = [ GOOGLE_API_KEY |-> g, OPENAI_API_KEY |-> o ]
    /\ LET call == refine_scores(prepare_llm_jobs(ranked_jobs, Max(1, args.llm_top_n)),
                                 resume_text, args.llm_provider)
       IN  /\ r_jobs' = call.jobs
           /\ r_provider' = call.provider
    /\ r_pc' = "called"
    /\ pc' = "refining"
    /\ UNCHANGED << local_result, attempted, api_calls, answered, r_result >>
    /\ UNCHANGED << args, resume_text, jobs, resume_embedding, job_embeddings,
                    embed_calls, base_scores_map, ranked_jobs, refined_scores,
                    persist_i, exit_status, report, runs, edits >>
    /\ UNCHANGED << dbVars, histVars >>
    /\ UNCHANGED agentVars

\* lines 255-261: refine_scores has returned
RefineDone ==
    /\ pc = "refining"
    /\ r_pc = "returned"
    /\ refined_scores' = r_result
    /\ pc' = "persist"
    /\ UNCHANGED << args, resume_text, jobs, resume_embedding, job_embeddings,
                    embed_calls, base_scores_map, ranked_jobs, persist_i,
                    exit_status, report, runs, edits >>
    /\ UNCHANGED << dbVars, refineVars, histVars >>
    /\ UNCHANGED agentVars

\* lines 255-260 when refine_scores raises: main() has no handler, the
\* exception ends the run before the persist loop
RefineRaised ==
    /\ pc = "refining"
    /\ r_pc = "raised"
    /\ pc' = "exited"
    /\ exit_status' = IF answered.kind = "scalar" THEN "TypeError" ELSE "AttributeError"
    /\ UNCHANGED << args, resume_text, jobs, resume_embedding, job_embeddings,
                    embed_calls, base_scores_map, ranked_jobs, refined_scores,
                    persist_i, report, runs, edits >>
    /\ UNCHANGED << dbVars, refineVars, histVars >>
    /\ UNCHANGED agentVars

\* mutant: a missing refined score is replaced by 0.0
RefinedGetZero(refined, id) == IF id \in DOMAIN refined THEN Real(refined[id]) ELSE Real(0)

\* refined_scores.get(job_id) as the value handed to the score write
RefinedGet(refined, id) == IF id \in DOMAIN refined THEN Real(refined[id]) ELSE NullScore

\* lines 264-267: one turn of the persist loop
PersistScore ==
    /\ pc = "persist"
    /\ persist_i <= Len(jobs)
    /\ LET job == jobs[persist_i]
       IN  tbl_scores' = upsert_score(tbl_scores, job.job_id,
                                      base_scores_map[job.job_id],
                                      RefinedGet(refined_scores, job.job_id))
    /\ persist_i' = persist_i + 1
    /\ UNCHANGED << tbl_job_postings, tbl_job_embeddings, tbl_resume_embeddings,
                    resume_file >>
    /\ UNCHANGED << pc, args, resume_text, jobs, resume_embedding, job_embeddings,
                    embed_calls, base_scores_map, ranked_jobs, refined_scores,
                    exit_status, report, runs, edits >>
    /\ UNCHANGED << refineVars, histVars >>
    /\ UNCHANGED agentVars

\* lines 264-267 when upsert_score raises (sqlite3.OperationalError: the
\* database is locked, the disk is full): nothing catches it, the exception
\* leaves the loop and main()
PersistScoreFails ==
    /\ pc = "persist"
    /\ persist_i <= Len(jobs)
    /\ pc' = "exited"
    /\ exit_status' = "sqlite3.OperationalError"
    /\ UNCHANGED << args, resume_text, jobs, resume_embedding, job_embeddings,
                    embed_calls, base_scores_map, ranked_jobs, refined_scores,
                    persist_i, report, runs, edits >>
    /\ UNCHANGED << dbVars, refineVars, histVars >>
    /\ UNCHANGED agentVars

\* the float NaN of a DataFrame column
NaNScore == << "nan", "nan" >>

\* pd.DataFrame(data)["llm_refined_score"]: a column that holds a float
\* becomes float64 and its None entries NaN; a column of None alone stays a
\* column of None
DataFrameColumn(values) ==
    IF \E i \in 1..Len(values) : values[i] # NullScore
    THEN [ i \in 1..Len(values) |-> IF values[i] = NullScore THEN NaNScore ELSE values[i] ]
    ELSE values

\* f"{value:.4f}" of a score in tenths
FormatTenths(x) ==
    IF x < 0 THEN "-" \o ToString((0 - x) \div 10) \o "." \o ToString((0 - x) % 10) \o "000"
    ELSE ToString(x \div 10) \o "." \o ToString(x % 10) \o "000"

\* lines 171-173: "-" if value is None else f"{value:.4f}"
FormatRefined(value) ==
    IF value = NullScore THEN "-"
    ELSE IF value = NaNScore THEN "nan"
    ELSE FormatTenths(value[1])

\* lines 269-280: ranked_with_refined, and per row of _print_top_results
\* its data and the text shown in the llm_refined_score column
Report ==
    /\ pc = "persist"
    /\ persist_i > Len(jobs)
    /\ LET limit == Min(PRINT_LIMIT, Len(ranked_jobs))
           refined == [ i \in 1..limit |->
                          RefinedGet(refined_scores, ranked_jobs[i].job.job_id) ]
           column == DataFrameColumn(refined)
       IN  report' = [ i \in 1..limit |->
                         [ job_id |-> ranked_jobs[i].job.job_id,
                           score |-> base_scores_map[ranked_jobs[i].job.job_id],
                           llm_refined_score |-> refined[i],
                           display |-> FormatRefined(column[i]) ] ]
    /\ exit_status' = "ok"
    /\ pc' = "exited"
    /\ UNCHANGED << args, resume_text, jobs, resume_embedding, job_embeddings,
                    embed_calls, base_scores_map, ranked_jobs, refined_scores,
                    persist_i, runs, edits >>
    /\ UNCHANGED << dbVars, refineVars, histVars >>
    /\ UNCHANGED agentVars

\* the process ends; the store is all that remains
Exit ==
    /\ pc = "exited"
    /\ pc' = "idle"
    /\ exit_status' = "none"
    /\ NoLocals
    /\ NoRefine
    /\ cache_before' = [ jobs |-> EmptyDict, resume |-> EmptyDict, postings |-> << >> ]
    /\ UNCHANGED << runs, edits, origin >>
    /\ UNCHANGED dbVars
    /\ UNCHANGED agentVars

\* the process is killed between two statements of main() or of the two
\* loaders: before or after the resume embedding is stored, before, between
\* or after the upserts of the job embeddings, or between two turns of the
\* persist loop; what was committed stays in the store
Crash ==
    /\ pc \in { "load_resume", "upsert_resume", "load_jobs", "upsert_jobs",
                 "rank", "persist" }
    /\ pc' = "exited"
    /\ exit_status' = "killed"
    /\ loading' = NoLoading
    /\ UNCHANGED << args, resume_text, jobs, resume_embedding, job_embeddings,
                    embed_calls, base_scores_map, ranked_jobs, refined_scores,
                    persist_i, report, runs, edits >>
    /\ UNCHANGED << dbVars, refineVars, histVars >>
    /\ UNCHANGED << loaders, tailor >>

\* INSERT OR IGNORE INTO job_postings: a posting whose job_id is stored
\* already is ignored and the stored row keeps its description; any other
\* posting becomes the last row (the unique index on job_id leaves out the
\* rows without one; the url of the posting is taken to be new)
insert_job(rows, job) ==
    IF job.job_id # None /\ \E i \in 1..Len(rows) : rows[i].job_id = job.job_id
    THEN rows
    ELSE Append(rows, job)

\* the acquisition pipeline, a process of its own, stores a posting (None is
\* a posting without a job_id); it can do so while an invocation of main()
\* is running
InsertJob ==
    /\ edits < MaxEdits
    /\ \E id \in { "1", "2", "3", None }, d \in Descriptions :
        tbl_job_postings' = insert_job(tbl_job_postings, JobDescription(id, d))
    /\ edits' = edits + 1
    /\ UNCHANGED << tbl_job_embeddings, tbl_resume_embeddings, tbl_scores, resume_file >>
    /\ UNCHANGED << pc, args, resume_text, jobs, resume_embedding, job_embeddings,
                    embed_calls, base_scores_map, ranked_jobs, refined_scores,
                    persist_i, exit_status, report, runs >>
    /\ UNCHANGED << refineVars, histVars >>
    /\ UNCHANGED agentVars

\* the user rewrites the resume file, also while an invocation of main() is
\* running
EditResume ==
    /\ edits < MaxEdits
    /\ \E t \in ResumeTexts \cup { "" } :
        /\ t # resume_file
        /\ resume_file' = t
    /\ edits' = edits + 1
    /\ UNCHANGED << tbl_job_postings, tbl_job_embeddings, tbl_resume_embeddings,
                    tbl_scores >>
    /\ UNCHANGED << pc, args, resume_text, jobs, resume_embedding, job_embeddings,
                    embed_calls, base_scores_map, ranked_jobs, refined_scores,
                    persist_i, exit_status, report, runs >>
    /\ UNCHANGED << refineVars, histVars >>
    /\ UNCHANGED agentVars

-----------------------------------------------------------------------------
(* Specifications *)

\* the job_postings tables of up to n rows; row i has job_id str(i)
Corpora(n) ==
    { [ i \in 1..Len(ds) |-> JobDescription(ToString(i), ds[i]) ] :
        ds \in SeqsUpTo(Descriptions, n) }

InitMain ==
    /\ pc = "idle"
    /\ args = NoArgs
    /\ resume_text = ""
    /\ jobs = <<>>
    /\ resume_embedding = <<>>
    /\ job_embeddings = <<>>
    /\ embed_calls = <<>>
    /\ base_scores_map = EmptyDict
    /\ ranked_jobs = <<>>
    /\ refined_scores = EmptyDict
    /\ persist_i = 1
    /\ exit_status = "none"
    /\ report = <<>>
    /\ runs = 0
    /\ edits = 0

InitHist ==
    /\ cache_before = [ jobs |-> EmptyDict, resume |-> EmptyDict, postings |-> << >> ]
    /\ origin = EmptyDict

\* no concurrent loader and no tailoring call
AgentsIdle ==
    /\ loaders = [ procs |-> << >>, log |-> << >> ]
    /\ tailor = [ pc |-> "idle" ]
    /\ loading = NoLoading

\* the store after ensure_schema and the acquisition pipeline: a corpus and a
\* resume file, no embedding and no score yet
InitStore ==
    /\ tbl_job_postings \in Corpora(MaxJobs)
    /\ tbl_job_embeddings = EmptyDict
    /\ tbl_resume_embeddings = EmptyDict
    /\ tbl_scores = EmptyDict
    /\ resume_file \in ResumeTexts \cup { "", None }

\* the command lines: without --use-llm the LLM options keep their defaults
PlainArgs ==
    { [ NoArgs EXCEPT !.model_name = m ] : m \in Models }
LlmArgs ==
    { [ model_name |-> DEFAULT_MODEL, use_llm |-> TRUE, llm_provider |-> p,
        llm_top_n |-> n ] : p \in ProviderArgs, n \in { 0, 1, 2 } }

RefineStep == RefineEnter \/ AttemptOllama \/ AttemptGemini \/ AttemptOpenai

MainStep ==
    \/ LoadResumeFetch
    \/ LoadResumeUpsert
    \/ LoadJobsFetch
    \/ LoadJobsUpsert
    \/ LoadJobsReturn
    \/ Rank
    \/ PersistScore
    \/ Report
    \/ Exit

\* the whole pipeline, with refinement
Init == InitStore /\ InitMain /\ RefineIdle /\ InitHist /\ AgentsIdle

Next ==
    \/ \E a \in { NoArgs } \cup LlmArgs, model_loads \in BOOLEAN : StartRun(a, model_loads)
    \/ MainStep
    \/ CallRefine
    \/ RefineStep
    \/ RefineDone
    \/ RefineRaised

Spec == Init /\ [][Next]_vars

\* the pipeline without refinement: the embedding cache across invocations
NextCache ==
    \/ \E a \in PlainArgs, model_loads \in BOOLEAN : StartRun(a, model_loads)
    \/ MainStep
    \/ InsertJob
    \/ EditResume

SpecCache == Init /\ [][NextCache]_vars

\* the pipeline without refinement, on a store whose score writes can fail
SpecPersist ==
    Init /\ [][ \/ \E a \in PlainArgs, model_loads \in BOOLEAN : StartRun(a, model_loads)
                \/ MainStep
                \/ PersistScoreFails ]_vars

\* the pipeline without refinement, where an invocation can be killed at any
\* point and the next one runs over the same corpus and resume
SpecCrash ==
    Init /\ [][ \/ \E a \in PlainArgs, model_loads \in BOOLEAN : StartRun(a, model_loads)
                \/ MainStep
                \/ Crash ]_vars

\* one call of refine_scores on its own
CandidateLists ==
    { <<>>,
      << RankedJob("1", "go", 1) >>,
      << RankedJob("2", "go", 1), RankedJob("1", "chef", 0) >> }

InitRefine ==
    /\ tbl_job_postings = <<>>
    /\ tbl_job_embeddings = EmptyDict
    /\ tbl_resume_embeddings = EmptyDict
    /\ tbl_scores = EmptyDict
    /\ resume_file = None
    /\ InitMain
    /\ InitHist
    /\ r_pc = "called"
    /\ r_jobs \in CandidateLists
    /\ r_provider \in ProviderArgs
    /\ env \in [ GOOGLE_API_KEY : KeyValues, OPENAI_API_KEY : KeyValues ]
    /\ attempted = <<>>
    /\ api_calls = <<>>
    /\ answered = NoOutcome
    /\ r_result = EmptyDict
    /\ local_result = EmptyDict
    /\ AgentsIdle

SpecRefine == InitRefine /\ [][RefineStep]_vars

\* one call of refine_scores in which a step that can be taken is taken
SpecTimeout ==
    /\ InitRefine
    /\ [][RefineStep]_vars
    /\ WF_vars(RefineStep)

\* the similarity index on its own: any corpus matrix and any query vector
InitRank ==
    /\ tbl_job_postings = <<>>
    /\ tbl_job_embeddings = EmptyDict
    /\ tbl_resume_embeddings = EmptyDict
    /\ tbl_scores = EmptyDict
    /\ resume_file = None
    /\ InitHist
    /\ RefineIdle
    /\ pc = "rank"
    /\ args \in PlainArgs
    /\ resume_text = "go"
    /\ job_embeddings \in SeqsUpTo(UnitVectors, MaxRows) \ { <<>> }
    /\ jobs = [ i \in 1..Len(job_embeddings) |-> JobDescription(ToString(i), "go") ]
    /\ resume_embedding \in UnitVectors
    /\ embed_calls = <<>>
    /\ base_scores_map = EmptyDict
    /\ ranked_jobs = <<>>
    /\ refined_scores = EmptyDict
    /\ persist_i = 1
    /\ exit_status = "running"
    /\ report = <<>>
    /\ runs = 1
    /\ edits = 0
    /\ AgentsIdle

SpecRank == InitRank /\ [][Rank]_vars

-----------------------------------------------------------------------------
(* Two invocations of main() loading their embeddings at the same time *)

Procs == { 1, 2 }

\* the job embeddings an earlier complete invocation under the model left
\* for the records
FullCache(rows, name) ==
    LET loaded == load_job_embeddings(EmptyDict, name, load_jobs_from_db(rows))
    IN  UpsertNew(EmptyDict, name, loaded.missing_jobs, loaded.new_embeddings, 1)

\* main(), lines 221-229, in process p: the process reads the resume file
\* and the corpus as they are at that moment and keeps both for the rest of
\* the invocation; BadParameter ends it when the text or the corpus is empty
LoaderStart(p) ==
    /\ loaders.procs[p].pc = "main"
    /\ loaders' =
           [ loaders EXCEPT !.procs[p] =
               IF StartFailure(resume_file, tbl_job_postings, TRUE) # "none"
               THEN [ @ EXCEPT !.pc = "failed" ]
               ELSE [ @ EXCEPT !.pc = "load_resume", !.resume_text = resume_file,
                               !.jobs = load_jobs_from_db(tbl_job_postings) ] ]
    /\ UNCHANGED << dbVars, mainVars, refineVars, histVars, tailor, loading >>

\* _load_resume_embedding, lines 134-144, in process p: the cached blob of
\* the resume is fetched; one that is there is returned, otherwise the
\* resume text the process read at line 222 is embedded
LoaderResumeFetch(p) ==
    /\ loaders.procs[p].pc = "load_resume"
    /\ LET r == loaders.procs[p]
           key == << DEFAULT_RESUME_PATH, r.model_name >>
       IN  loaders' =
              [ loaders EXCEPT !.procs[p] =
                  IF CacheHit(tbl_resume_embeddings, key)
                  THEN [ r EXCEPT !.pc = "start",
                                  !.resume_embedding =
                                      bytes_to_embedding(tbl_resume_embeddings[key]) ]
                  ELSE [ r EXCEPT !.pc = "upsert_resume",
                                  !.resume_embedding =
                                      embed_texts(r.model_name, << r.resume_text >>, TRUE)[1] ] ]
    /\ UNCHANGED << dbVars, mainVars, refineVars, histVars, tailor, loading >>

\* _load_resume_embedding, lines 145-148, in process p: upsert_resume_embedding
\* opens its own connection and commits
LoaderResumeUpsert(p) ==
    /\ loaders.procs[p].pc = "upsert_resume"
    /\ LET r == loaders.procs[p]
           blob == embedding_to_bytes(r.resume_embedding)
       IN  /\ tbl_resume_embeddings' =
                  upsert_resume_embedding(tbl_resume_embeddings, DEFAULT_RESUME_PATH,
                                          r.model_name, blob)
           /\ loaders' =
                  [ loaders EXCEPT
                      !.procs[p] = [ @ EXCEPT !.pc = "start" ],
                      !.log = Append(@, [ proc |-> p,
                                          key |-> << DEFAULT_RESUME_PATH, r.model_name >>,
                                          blob |-> blob ]) ]
    /\ UNCHANGED << tbl_job_postings, tbl_job_embeddings, tbl_scores, resume_file >>
    /\ UNCHANGED << mainVars, refineVars, histVars, tailor, loading >>

\* lines 88-110: the process reads the cached blobs of its model for the
\* records it read at line 227, and embeds the texts it found no blob for
LoaderRead(p) ==
    /\ loaders.procs[p].pc = "start"
    /\ LET loaded == load_job_embeddings(tbl_job_embeddings,
                                        loaders.procs[p].model_name,
                                        loaders.procs[p].jobs)
       IN  loaders' =
              [ loaders EXCEPT !.procs[p] =
                  [ @ EXCEPT !.pc = IF loaded.missing_jobs = <<>> THEN "done"
                                    ELSE "upsert",
                             !.missing_jobs = loaded.missing_jobs,
                             !.new_embeddings = loaded.new_embeddings ] ]
    /\ UNCHANGED << dbVars, mainVars, refineVars, histVars, tailor, loading >>

\* lines 111-115: one turn of the upsert loop; upsert_job_embedding opens
\* its own connection and commits
LoaderUpsert(p) ==
    /\ loaders.procs[p].pc = "upsert"
    /\ LET r == loaders.procs[p]
           job == r.missing_jobs[r.i]
           blob == embedding_to_bytes(r.new_embeddings[r.i])
       IN  /\ tbl_job_embeddings' =
                  upsert_job_embedding(tbl_job_embeddings, job.job_id, r.model_name, blob)
           /\ loaders' =
                  [ loaders EXCEPT
                      !.procs[p] = [ @ EXCEPT !.i = @ + 1,
                                              !.pc = IF r.i = Len(r.missing_jobs)
                                                     THEN "done" ELSE "upsert" ],
                      !.log = Append(@, [ proc |-> p,
                                          key |-> << job.job_id, r.model_name >>,
                                          blob |-> blob ]) ]
    /\ UNCHANGED << tbl_job_postings, tbl_resume_embeddings, tbl_scores, resume_file >>
    /\ UNCHANGED << mainVars, refineVars, histVars, tailor, loading >>

\* two invocations under one model over one corpus and one resume path, the
\* resume file being rewritten at most MaxEdits times meanwhile; the job
\* cache is empty, or holds the entries of an invocation under the other
\* model, or those of the first record under this model; the resume cache
\* is empty or holds the entry of the other model
InitConcurrent ==
    /\ tbl_job_postings \in Corpora(MaxJobs)
    /\ tbl_scores = EmptyDict
    /\ resume_file \in ResumeTexts
    /\ InitMain
    /\ RefineIdle
    /\ origin = EmptyDict
    /\ tailor = [ pc |-> "idle" ]
    /\ loading = NoLoading
    /\ \E m \in Models :
          /\ tbl_job_embeddings \in
                 { EmptyDict, FullCache(SubSeq(tbl_job_postings, 1, Min(1, Len(tbl_job_postings))), m) }
                 \cup { FullCache(tbl_job_postings, other) : other \in Models \ { m } }
          /\ tbl_resume_embeddings \in
                 { EmptyDict }
                 \cup { upsert_resume_embedding(EmptyDict, DEFAULT_RESUME_PATH, other,
                            embedding_to_bytes(embed_texts(other, << resume_file >>, TRUE)[1])) :
                        other \in Models \ { m } }
          /\ loaders = [ procs |-> [ p \in Procs |->
                                       [ pc |-> "main", model_name |-> m,
                                         resume_text |-> "", jobs |-> << >>,
                                         resume_embedding |-> << >>,
                                         missing_jobs |-> << >>,
                                         new_embeddings |-> << >>, i |-> 1 ] ],
                         log |-> << >> ]
    /\ cache_before = [ jobs |-> tbl_job_embeddings, resume |-> tbl_resume_embeddings,
                       postings |-> tbl_job_postings ]

SpecConcurrent ==
    InitConcurrent /\ [][ \/ \E p \in Procs : \/ LoaderStart(p)
                                               \/ LoaderResumeFetch(p)
                                               \/ LoaderResumeUpsert(p)
                                               \/ LoaderRead(p)
                                               \/ LoaderUpsert(p)
                           \/ EditResume ]_vars

-----------------------------------------------------------------------------
(* tailor_resume_agentic() (agents/tailor.py) *)

MAX_ITERATIONS == 5

\* What one turn of the loop meets: generate_gemini_content raises
\* GeminiError (no API key, a failed request, an empty response); or
\* render_resume or _count_pages raises, with the message str(exc) gives (the
\* compiler's message, or none for an exception raised without one); or the
\* PDF is rendered and has the given number of pages.
TurnOutcomes ==
    { [ t |-> "gemini_error" ],
      [ t |-> "compile_error", message |-> "tectonic failed with code 1" ],
      [ t |-> "compile_error", message |-> "" ],
      [ t |-> "rendered", pages |-> 0 ],
      [ t |-> "rendered", pages |-> 1 ],
      [ t |-> "rendered", pages |-> 2 ] }

\* a function that reports what it last saw whatever failed before
FinalStatusKept(last_error, status) == status

\* line 139: "failed_compile" if last_error else status
FinalStatus(last_error, status) ==
    IF Truthy(last_error) THEN "failed_compile" ELSE status

\* lines 68-80: the two files are looked for, the locals are set
TailorEnter ==
    /\ tailor.pc = "called"
    /\ tailor' =
          IF ~tailor.master_exists \/ ~tailor.class_exists
          THEN [ tailor EXCEPT !.pc = "raised", !.error = "FileNotFoundError" ]
          ELSE [ tailor EXCEPT !.pc = "loop" ]
    /\ UNCHANGED << dbVars, mainVars, refineVars, histVars, loaders, loading >>

\* lines 82-135: one turn of `for _ in range(MAX_ITERATIONS)`
TailorTurn ==
    /\ tailor.pc = "loop"
    /\ tailor.turns < MAX_ITERATIONS
    /\ \E out \in TurnOutcomes :
          tailor' =
             CASE out.t = "gemini_error" ->
                    [ tailor EXCEPT !.pc = "raised", !.error = "GeminiError",
                                    !.turns = @ + 1 ]
               [] out.t = "compile_error" ->
                    [ tailor EXCEPT !.turns = @ + 1,
                                    !.attempts = Append(@, out),
                                    !.last_error = out.message ]
               [] out.t = "rendered" /\ out.pages <= 1 ->
                    [ tailor EXCEPT !.pc = "returned",
                                    !.turns = @ + 1,
                                    !.attempts = Append(@, out),
                                    !.page_count = out.pages,
                                    !.status = "success",
                                    !.version = Len(tailor.attempts) + 1 ]
               [] OTHER ->
                    [ tailor EXCEPT !.turns = @ + 1,
                                    !.attempts = Append(@, out),
                                    !.page_count = out.pages ]
    /\ UNCHANGED << dbVars, mainVars, refineVars, histVars, loaders, loading >>

\* lines 137-147: the loop ran out; the last attempt is returned
TailorExhausted ==
    /\ tailor.pc = "loop"
    /\ tailor.turns = MAX_ITERATIONS
    /\ tailor' = [ tailor EXCEPT !.pc = "returned",
                                 !.status = FinalStatus(tailor.last_error, tailor.status),
                                 !.version = Len(tailor.attempts) ]
    /\ UNCHANGED << dbVars, mainVars, refineVars, histVars, loaders, loading >>

\* a call of tailor_resume_agentic, with the master resume and the class
\* file present or not
InitTailor ==
    /\ tbl_job_postings = <<>>
    /\ tbl_job_embeddings = EmptyDict
    /\ tbl_resume_embeddings = EmptyDict
    /\ tbl_scores = EmptyDict
    /\ resume_file = None
    /\ InitMain
    /\ RefineIdle
    /\ InitHist
    /\ loaders = [ procs |-> << >>, log |-> << >> ]
    /\ loading = NoLoading
    /\ \E m \in BOOLEAN, c \in BOOLEAN :
          tailor = [ pc |-> "called", master_exists |-> m, class_exists |-> c,
                     turns |-> 0, attempts |-> << >>, last_error |-> None,
                     page_count |-> None, status |-> "failed", version |-> 0,
                     error |-> None ]

SpecTailor == InitTailor /\ [][TailorEnter \/ TailorTurn \/ TailorExhausted]_vars

\* the response parser on its own: any response text, held in `answered`
ParseEntries ==
    { Entry(id, score) : id \in { None, "", "1", "2" },
                         score \in { Num(7), Num(15), Str("bad"), Str("0.7"),
                                     Bool(TRUE), Null, Absent } }
    \cup { NonObject }

\* the fragments the pattern of _parse_relaxed_scores can match: an identity
\* between quotes and the raw score literal after it
RelaxedEntries ==
    { Entry(id, Str(raw)) : id \in { "1", "2", " " },
                            raw \in { "007", "00.5", "000", "0.7", "\"0.7\"", "1.5",
                                      "nan", "NaN", "None", "bad" } }

ParseInputs ==
    { Text("json", es) : es \in SeqsUpTo(ParseEntries, MaxEntries) }
    \cup { Text("relaxed", es) : es \in SeqsUpTo(RelaxedEntries, MaxEntries) }
    \cup Responses
    \cup { RespObject, RespEmptyObject, RespScalar, RespUpperKey }
    \* [{"refined_score": 0.7, "job_id": "1"}]
    \cup { Text("json", << [ job_id |-> "1", refined_score |-> Num(7),
                             score_first |-> TRUE ] >>) }

\* _parse_refined_scores(response_text): returns its mapping or raises
ParseResponse ==
    /\ r_pc = "parse"
    /\ IF ParseRaises(answered)
       THEN r_pc' = "raised" /\ r_result' = r_result
       ELSE r_pc' = "returned" /\ r_result' = parse_refined_scores(answered)
    /\ UNCHANGED << r_jobs, r_provider, env, local_result, attempted, api_calls,
                    answered >>
    /\ UNCHANGED << dbVars, mainVars, histVars >>
    /\ UNCHANGED agentVars

InitParse ==
    /\ tbl_job_postings = <<>>
    /\ tbl_job_embeddings = EmptyDict
    /\ tbl_resume_embeddings = EmptyDict
    /\ tbl_scores = EmptyDict
    /\ resume_file = None
    /\ InitMain
    /\ InitHist
    /\ r_pc = "parse"
    /\ r_jobs = <<>>
    /\ r_provider = None
    /\ env = NoEnv
    /\ attempted = <<>>
    /\ api_calls = <<>>
    /\ answered \in ParseInputs
    /\ r_result = EmptyDict
    /\ local_result = EmptyDict
    /\ AgentsIdle

SpecParse == InitParse /\ [][ParseResponse]_vars

-----------------------------------------------------------------------------
(* Properties *)

\* positions of main()
RankDone == pc \in { "refine", "refining", "persist" } \/ (pc = "exited" /\ exit_status = "ok")
JobsLoaded == pc = "rank" \/ RankDone
ResumeLoaded == pc \in { "load_jobs", "upsert_jobs" } \/ JobsLoaded
PersistDone == pc = "persist" /\ persist_i > Len(jobs)

ResumeKey == << DEFAULT_RESUME_PATH, args.model_name >>
JobKey(i) == << jobs[i].job_id, args.model_name >>

\* the subjects handed to the embedding provider in this invocation
Embedded ==
    UNION { Range(embed_calls[c].subjects) : c \in 1..Len(embed_calls) }

\* 1..n by score descending, equal scores by position ascending
RECURSIVE StableDescending(_, _)
StableDescending(scores, rest) ==
    IF rest = {} THEN <<>>
    ELSE LET b == CHOOSE a \in rest :
                    \A c \in rest \ {a} :
                        scores[a] > scores[c] \/ (scores[a] = scores[c] /\ a < c)
         IN  << b >> \o StableDescending(scores, rest \ {b})

\* C1: once main() has ranked, ranked_jobs lists the corpus records by
\* exhaustive dot-product base score descending, records of equal score in
\* their corpus input order, each with its base score.
C1_RankedByBaseScoreFirstSeenFirst ==
    RankDone =>
        LET scores == [ i \in 1..Len(jobs) |-> Dot(job_embeddings[i], resume_embedding) ]
            order  == StableDescending(scores, 1..Len(jobs))
        IN  ranked_jobs = [ r \in 1..Len(jobs) |->
                              [ job |-> jobs[order[r]], score |-> scores[order[r]] ] ]

\* C2: a subject that had a cache entry under the run's model when the run
\* started is never handed to the embedding provider, and the load returns
\* the stored vector for it, whatever the subject's text is now.
C2_CachedSubjectIsNeverEmbedded ==
    /\ ResumeKey \in DOMAIN cache_before.resume =>
           /\ DEFAULT_RESUME_PATH \notin Embedded
           /\ ResumeLoaded =>
                  resume_embedding = bytes_to_embedding(cache_before.resume[ResumeKey])
    /\ \A i \in 1..Len(jobs) :
           JobKey(i) \in DOMAIN cache_before.jobs =>
               /\ jobs[i].job_id \notin Embedded
               /\ JobsLoaded =>
                      job_embeddings[i] = bytes_to_embedding(cache_before.jobs[JobKey(i)])

\* a run has loaded its records and the resume from the cache, and the text
\* of the resume is no longer the text its vector was computed from
C2_Witness ==
    /\ JobsLoaded
    /\ \E i \in 1..Len(jobs) : JobKey(i) \in DOMAIN cache_before.jobs
    /\ ResumeKey \in DOMAIN cache_before.resume
    /\ origin[ResumeKey].text # resume_text

\* C3: after a load the subject has a cache entry under (subject, model), and
\* the vector the load returns is the vector returned when that entry was
\* created, on the miss and on every later hit.
C3_HitReturnsTheVectorOfTheMiss ==
    /\ ResumeLoaded =>
           /\ ResumeKey \in DOMAIN tbl_resume_embeddings
           /\ ResumeKey \in DOMAIN origin
           /\ resume_embedding = origin[ResumeKey].vector
    /\ JobsLoaded =>
           \A i \in 1..Len(jobs) :
               /\ JobKey(i) \in DOMAIN tbl_job_embeddings
               /\ JobKey(i) \in DOMAIN origin
               /\ job_embeddings[i] = origin[JobKey(i)].vector

\* a run has loaded the resume and a record from entries an earlier run wrote
C3_Witness ==
    /\ JobsLoaded
    /\ ResumeKey \in DOMAIN cache_before.resume
    /\ \E i \in 1..Len(jobs) : JobKey(i) \in DOMAIN cache_before.jobs

\* C4: no step changes or removes an existing cache entry, and the entries a
\* step adds are entries of the running invocation's model.
C4_CacheEntriesAreNeverChanged ==
    [][ /\ \A k \in DOMAIN tbl_job_embeddings :
               k \in DOMAIN tbl_job_embeddings' /\ tbl_job_embeddings'[k] = tbl_job_embeddings[k]
        /\ \A k \in DOMAIN tbl_resume_embeddings :
               k \in DOMAIN tbl_resume_embeddings'
               /\ tbl_resume_embeddings'[k] = tbl_resume_embeddings[k]
        /\ \A k \in (DOMAIN tbl_job_embeddings') \ DOMAIN tbl_job_embeddings :
               k[2] = args.model_name
        /\ \A k \in (DOMAIN tbl_resume_embeddings') \ DOMAIN tbl_resume_embeddings :
               k[2] = args.model_name ]_vars

\* a run under a second model has added its entries beside those of the first
C4_Witness ==
    /\ JobsLoaded
    /\ \E i \in 1..Len(jobs), m \in Models :
           /\ m # args.model_name
           /\ << jobs[i].job_id, m >> \in DOMAIN cache_before.jobs
           /\ JobKey(i) \notin DOMAIN cache_before.jobs
           /\ JobKey(i) \in DOMAIN tbl_job_embeddings
    /\ << DEFAULT_RESUME_PATH, DEFAULT_MODEL >> \in DOMAIN tbl_resume_embeddings
    /\ << DEFAULT_RESUME_PATH, MINILM_MODEL >> \in DOMAIN tbl_resume_embeddings

\* kinds of refine_scores call, read off its arguments
AutoCall == r_jobs # <<>> /\ NormalizeProvider(r_provider) = ""
ExplicitCall ==
    r_jobs # <<>> /\ NormalizeProvider(r_provider) \in { "ollama", "gemini", "openai" }
UnknownCall == r_jobs # <<>> /\ NormalizeProvider(r_provider) \notin KnownProviders
LocalTried == attempted # <<>> /\ attempted[1] = "ollama"
\* the call has ended in the parser's exception, or stays in a provider's
\* call
GatewayFault == r_pc \in { "raised", "waiting" }

\* C5: with no provider requested and candidates given, the local provider
\* is the first one attempted; when it returns at least one parsed score the
\* call returns exactly that mapping and nothing else is attempted.
C5_LocalFirstAndUsedWhenNonEmpty ==
    AutoCall =>
        /\ attempted # <<>> => attempted[1] = "ollama"
        /\ r_pc \notin { "called", "auto" } => attempted # <<>>
        /\ local_result # EmptyDict =>
               /\ r_pc = "returned"
               /\ r_result = local_result
               /\ r_result = parse_refined_scores(answered)
               /\ attempted = << "ollama" >>
               /\ api_calls = << "ollama" >>

\* the local provider answered with a score while both credentials were set
C5_Witness ==
    /\ AutoCall
    /\ r_pc = "returned"
    /\ local_result # EmptyDict
    /\ Truthy(env.GOOGLE_API_KEY)
    /\ Truthy(env.OPENAI_API_KEY)

\* C6: in the auto-detect chain, after an empty local result and with the
\* first hosted credential set, the call returns what the first hosted
\* provider gives, empty or not, and the second one is never attempted.
C6_FirstHostedEndsTheChain ==
    (AutoCall /\ LocalTried /\ local_result = EmptyDict /\ Truthy(env.GOOGLE_API_KEY)) =>
        /\ r_pc \in { "gemini", "returned" }
        /\ "openai" \notin Range(attempted)
        /\ "openai" \notin Range(api_calls)
        /\ r_pc = "returned" =>
               /\ attempted = << "ollama", "gemini" >>
               /\ r_result = refine_with_gemini(answered, env.GOOGLE_API_KEY)

\* the first hosted provider gave nothing while the second credential was set
C6_Witness ==
    /\ AutoCall
    /\ r_pc = "returned"
    /\ attempted = << "ollama", "gemini" >>
    /\ Truthy(env.OPENAI_API_KEY)
    /\ r_result = EmptyDict
    /\ answered = RespGarbage

\* C7: in the auto-detect chain, after an empty local result and with only
\* the second hosted credential set, the call returns the mapping the second
\* hosted provider's dispatch function gives for its response.
C7_SecondHostedResultIsReturned ==
    (AutoCall /\ LocalTried /\ local_result = EmptyDict
        /\ ~Truthy(env.GOOGLE_API_KEY) /\ Truthy(env.OPENAI_API_KEY)) =>
        /\ r_pc \in { "openai", "returned" }
        /\ "gemini" \notin Range(attempted)
        /\ r_pc = "returned" =>
               /\ attempted = << "ollama", "openai" >>
               /\ answered \in Outcomes
               /\ r_result = refine_with_openai(answered, env.OPENAI_API_KEY)

\* the second hosted provider's scores came back through the chain
C7_Witness ==
    /\ AutoCall
    /\ r_pc = "returned"
    /\ ~Truthy(env.GOOGLE_API_KEY)
    /\ attempted = << "ollama", "openai" >>
    /\ r_result # EmptyDict

\* every record of the run has its base score of this run in the scores table
BaseScoresPersisted ==
    \A i \in 1..Len(jobs) :
        /\ jobs[i].job_id \in DOMAIN tbl_scores
        /\ tbl_scores[jobs[i].job_id].score =
               Real(Dot(job_embeddings[i], resume_embedding))

\* C8: in the auto-detect chain with an empty local result and no hosted
\* credential, refine_scores returns the empty mapping, and once the persist
\* loop has ended every corpus record has its base score stored.
C8_NoProviderStillPersistsBaseScores ==
    (args.use_llm /\ AutoCall /\ LocalTried /\ local_result = EmptyDict
        /\ ~Truthy(env.GOOGLE_API_KEY) /\ ~Truthy(env.OPENAI_API_KEY)) =>
        /\ r_pc = "returned"
        /\ r_result = EmptyDict
        /\ attempted = << "ollama" >>
        /\ pc \in { "refining", "persist", "exited" }
        /\ pc \in { "persist", "exited" } => refined_scores = EmptyDict
        /\ (PersistDone \/ pc = "exited") =>
               /\ exit_status \in { "running", "ok" }
               /\ BaseScoresPersisted

\* such a run over two records has ended its persist loop
C8_Witness ==
    /\ args.use_llm /\ AutoCall /\ LocalTried /\ local_result = EmptyDict
    /\ ~Truthy(env.GOOGLE_API_KEY) /\ ~Truthy(env.OPENAI_API_KEY)
    /\ PersistDone
    /\ Len(jobs) = 2

\* the requested provider gave no usable answer: it failed, lacks its
\* credential, never answered, or answered a text without a parseable score
ExplicitFailed ==
    \/ answered \in { ImportError, CallError, NoOutcome }
    \/ NormalizeProvider(r_provider) = "gemini" /\ ~Truthy(env.GOOGLE_API_KEY)
    \/ NormalizeProvider(r_provider) = "openai" /\ ~Truthy(env.OPENAI_API_KEY)
    \/ ParseRaises(answered)
    \/ parse_refined_scores(answered) = EmptyDict

\* C9: a call that names a recognised provider attempts that provider and no
\* other, and returns the empty mapping when that provider fails, lacks its
\* credential or gives nothing parseable.
C9_ExplicitProviderOnly ==
    ExplicitCall =>
        /\ Range(attempted) \subseteq { NormalizeProvider(r_provider) }
        /\ Range(api_calls) \subseteq { NormalizeProvider(r_provider) }
        /\ attempted # <<>> =>
               /\ attempted = << NormalizeProvider(r_provider) >>
               /\ ExplicitFailed => (r_pc = "returned" /\ r_result = EmptyDict)

\* the first hosted provider was requested without its credential while the
\* second one's was set, and the call returned empty
C9_Witness ==
    /\ ExplicitCall
    /\ r_pc = "returned"
    /\ NormalizeProvider(r_provider) = "gemini"
    /\ ~Truthy(env.GOOGLE_API_KEY)
    /\ Truthy(env.OPENAI_API_KEY)
    /\ parse_refined_scores(answered) # EmptyDict
    /\ r_result = EmptyDict

\* what C6, C7 and C9 state holds of every call that neither raises nor
\* waits
ChainAsStatedUnlessFault ==
    ~GatewayFault =>
        /\ C6_FirstHostedEndsTheChain
        /\ C7_SecondHostedResultIsReturned
        /\ C9_ExplicitProviderOnly

\* what C8 states holds of every run whose gateway call neither raises nor
\* waits
BaseScoresPersistedUnlessFault ==
    ~GatewayFault => C8_NoProviderStillPersistsBaseScores

\* C10: a call with candidates and an unrecognised provider name
\* does not return an empty mapping, and the run writes no score.
C10_UnknownProviderStopsTheRun ==
    (args.use_llm /\ UnknownCall) =>
        /\ ~(r_pc = "returned" /\ r_result = EmptyDict)
        /\ pc # "persist"

\* what the code does instead: a call with candidates and an unrecognised
\* provider name returns the empty mapping without attempting any provider,
\* and the run goes on to store the base score of every record, with no
\* refined score
UnknownProviderSkipsRefinement ==
    (args.use_llm /\ UnknownCall) =>
        /\ r_pc \in { "called", "returned" }
        /\ attempted = <<>>
        /\ api_calls = <<>>
        /\ r_pc = "returned" => r_result = EmptyDict
        /\ pc \in { "persist", "exited" } => refined_scores = EmptyDict
        /\ (PersistDone \/ pc = "exited") =>
               /\ exit_status \in { "running", "ok" }
               /\ BaseScoresPersisted

\* a run with an unrecognised provider name has stored both base scores
UnknownProviderRunPersisted ==
    /\ args.use_llm /\ UnknownCall
    /\ r_provider = "claude"
    /\ PersistDone
    /\ Len(jobs) = 2
    /\ BaseScoresPersisted

\* the strict parser has returned for a response that is a JSON array
StrictParsed == r_pc = "returned" /\ answered.kind = "json"

HasIdentity(e) == e.job_id \notin { None, "" }

\* a refined_score that is a number: a JSON number, or a string spelling one
IsNumeric(score) == score.t = "num" \/ (score.t = "str" /\ score.s = "0.7")
NumericValue(score) == IF score.t = "num" THEN score.n ELSE 7

\* C11, as claimed: every entry with an identity and a numeric score is in
\* the result with that score, and the identity of an entry that lacks a
\* field or carries a non-numeric score is not in the result (unless another
\* entry with a numeric score carries the same identity).
C11_EachEntryDecidedOnItsOwn ==
    StrictParsed =>
        \A i \in 1..Len(answered.entries) :
            LET e == answered.entries[i]
            IN  IF HasIdentity(e) /\ IsNumeric(e.refined_score)
                THEN /\ e.job_id \in DOMAIN r_result
                     /\ r_result[e.job_id] = NumericValue(e.refined_score)
                ELSE (/\ HasIdentity(e)
                      /\ ~\E j \in 1..Len(answered.entries) :
                            /\ answered.entries[j].job_id = e.job_id
                            /\ IsNumeric(answered.entries[j].refined_score))
                     => e.job_id \notin DOMAIN r_result

\* what float() accepts: a number, a string spelling one, or a boolean
FloatAccepts(score) == IsNumeric(score) \/ score.t = "bool"
FloatValue(score) ==
    IF score.t = "bool" THEN (IF score.b THEN 10 ELSE 0) ELSE NumericValue(score)
Kept(e) == HasIdentity(e) /\ FloatAccepts(e.refined_score)

\* C11, amended: the result holds exactly the identities of the entries that
\* have an identity and a score float() accepts (a boolean included), each
\* with the score of the last such entry carrying it; the other entries
\* change nothing.
C11_LastKeptEntryPerIdentity ==
    StrictParsed =>
        LET es == answered.entries
            kept == { i \in 1..Len(es) : Kept(es[i]) }
        IN  /\ DOMAIN r_result = { es[i].job_id : i \in kept }
            /\ \A i \in kept :
                   (\A j \in kept : j > i => es[j].job_id # es[i].job_id)
                       => r_result[es[i].job_id] = FloatValue(es[i].refined_score)

\* the array of one good entry followed by one with a score of "bad" has
\* been parsed to the good entry alone
C11_Witness ==
    /\ StrictParsed
    /\ answered = Text("json", << Entry("1", Num(7)), Entry("2", Str("bad")) >>)
    /\ r_result = DictSet(EmptyDict, "1", 7)

\* C12: every value in the mapping refine_scores returns is a number in
\* [0, 1] (0..10 in tenths), whatever the provider's response text is.
C12_RefinedValuesInUnitRange ==
    r_pc = "returned" =>
        \A id \in DOMAIN r_result : 0 <= r_result[id] /\ r_result[id] <= 10

\* C13: no step removes a score row or changes the stored refined score of
\* a record the run has no refined score for, and each turn of the persist
\* loop stores the run's base score of its record and, when the run has a
\* refined score for it, that refined score.
C13_RefinedScoreKeptUnlessSupplied ==
    [][ /\ \A id \in DOMAIN tbl_scores :
               /\ id \in DOMAIN tbl_scores'
               /\ id \notin DOMAIN refined_scores =>
                      tbl_scores'[id].llm_refined_score = tbl_scores[id].llm_refined_score
        /\ (pc = "persist" /\ persist_i' = persist_i + 1) =>
               LET id == jobs[persist_i].job_id
               IN  /\ id \in DOMAIN tbl_scores'
                   /\ tbl_scores'[id].score = Real(base_scores_map[id])
                   /\ id \in DOMAIN refined_scores =>
                          tbl_scores'[id].llm_refined_score = Real(refined_scores[id]) ]_vars

\* a later run without any refined score has rewritten the row of a record
\* that still holds the refined score of the earlier run
C13_Witness ==
    /\ PersistDone
    /\ runs = 2
    /\ refined_scores = EmptyDict
    /\ \E i \in 1..Len(jobs) :
           /\ jobs[i].job_id \in DOMAIN tbl_scores
           /\ tbl_scores[jobs[i].job_id].llm_refined_score # NullScore

\* the identities of the top-N slice handed to refine_scores
SliceIds == { r_jobs[k].job_id : k \in 1..Len(r_jobs) }

\* C14: a step stores a new refined score for a record only if the record
\* was in the slice sent to refine_scores and the returned mapping holds a
\* value for its identity, which is the value stored.
C14_RefinedScoreOnlyForSliceRecords ==
    [][ \A id \in DOMAIN tbl_scores' :
            LET old == IF id \in DOMAIN tbl_scores
                       THEN tbl_scores[id].llm_refined_score ELSE NullScore
            IN  tbl_scores'[id].llm_refined_score # old =>
                    /\ id \in SliceIds
                    /\ id \in DOMAIN r_result
                    /\ tbl_scores'[id].llm_refined_score = Real(r_result[id]) ]_vars

\* an invocation has ended over a corpus without any record that has an
\* identity and a non-blank text (records are only ever added, so the corpus
\* had none when the invocation read it)
EmptyCorpusRun ==
    /\ pc = "exited"
    /\ load_jobs_from_db(tbl_job_postings) = <<>>

\* the invocation did not end at its reference document (lines 222-224),
\* which the spec makes fatal
ResumeWasRead == exit_status \notin { "FileNotFoundError", "BadParameter: resume" }

\* C15: a run over an empty corpus whose reference document was read ends
\* without an error and reports zero results.
C15_EmptyCorpusIsNotAnError ==
    (EmptyCorpusRun /\ ResumeWasRead) => (exit_status = "ok" /\ report = <<>>)

\* what the code does instead: a run over an empty corpus ends with an
\* error, that of its reference document or else the BadParameter of
\* _load_jobs_from_db, before anything is embedded, ranked or reported
EmptyCorpusIsAnError ==
    EmptyCorpusRun =>
        /\ exit_status \in { "FileNotFoundError", "BadParameter: resume",
                              "BadParameter: jobs" }
        /\ ResumeWasRead => exit_status = "BadParameter: jobs"
        /\ embed_calls = <<>>
        /\ ranked_jobs = <<>>
        /\ report = <<>>

\* a run over a corpus of two records with blank bodies has ended so
EmptyCorpusRunOfBlankRecords ==
    /\ EmptyCorpusRun
    /\ Len(tbl_job_postings) = 2
    /\ exit_status = "BadParameter: jobs"

\* the failures of main() that C16 names
ResumeOrModelFailures ==
    { "FileNotFoundError", "BadParameter: resume", "model load failed" }

\* C16: an invocation that starts with the resume file missing, unreadable
\* or empty after cleaning, or whose embedding model does not load, ends at
\* once with that failure; the step embeds nothing and leaves every table
\* as it was, and after the failure the invocation does nothing but exit:
\* no embedding and no score is written.
C16_FailureBeforeAnyEmbeddingOrWrite ==
    [][ /\ (/\ pc = "idle"
            /\ pc' # "idle"
            /\ (resume_file \in { None, "" } \/ exit_status' = "model load failed")) =>
               /\ pc' = "exited"
               /\ exit_status' \in ResumeOrModelFailures
               /\ embed_calls' = <<>>
               /\ dbVars' = dbVars
        /\ (pc = "exited" /\ exit_status \in ResumeOrModelFailures) =>
               /\ pc' \in { "exited", "idle" }
               /\ embed_calls' = <<>>
               /\ tbl_job_embeddings' = tbl_job_embeddings
               /\ tbl_resume_embeddings' = tbl_resume_embeddings
               /\ tbl_scores' = tbl_scores ]_vars

\* a second run has failed on the model load, with the embeddings and the
\* scores of the first run in the store
C16_Witness ==
    /\ pc = "exited"
    /\ exit_status = "model load failed"
    /\ runs = 2
    /\ tbl_job_embeddings # EmptyDict
    /\ tbl_scores # EmptyDict

\* C17: when the score write of a record has failed, the score writes of
\* the records that follow it in the run have still been made.
C17_FailedWriteDoesNotStopTheRest ==
    (pc = "exited" /\ exit_status = "sqlite3.OperationalError") =>
        \A j \in (persist_i + 1)..Len(jobs) :
            /\ jobs[j].job_id \in DOMAIN tbl_scores
            /\ tbl_scores[jobs[j].job_id].score = Real(base_scores_map[jobs[j].job_id])

\* a turn of the persist loop, and the step that prints the report
PersistTurn == pc = "persist" /\ persist_i' = persist_i + 1
ReportStep == pc = "persist" /\ pc' = "exited" /\ exit_status' = "ok"

\* the refined score stored for id before the step, null when it has no row
StoredRefined(id) ==
    IF id \in DOMAIN tbl_scores THEN tbl_scores[id].llm_refined_score ELSE NullScore

\* the score write of a record without a refined value of this run was
\* handed null: the stored refined score is what it was, null for a new row
NullHandedToWrite ==
    PersistTurn =>
        LET id == jobs[persist_i].job_id
        IN  id \notin DOMAIN refined_scores =>
                tbl_scores'[id].llm_refined_score = StoredRefined(id)

\* C18, as claimed: for a record without a refined value of this run the
\* score write is handed null, and the report row carries None and shows it
\* as "-".
C18_AbsentRefinedIsNoneShownAsDash ==
    [][ /\ NullHandedToWrite
        /\ ReportStep =>
               \A i \in 1..Len(report') :
                   report'[i].job_id \notin DOMAIN refined_scores =>
                       /\ report'[i].llm_refined_score = NullScore
                       /\ report'[i].display = "-" ]_vars

\* C18, amended: for a record without a refined value of this run the score
\* write is handed null and the report row carries None; the row shows "-"
\* when no row of the report has a refined value and "nan" when some row
\* has one, never the text of a number.
C18_AbsentRefinedIsNeverANumber ==
    [][ /\ NullHandedToWrite
        /\ ReportStep =>
               \A i \in 1..Len(report') :
                   IF report'[i].job_id \in DOMAIN refined_scores
                   THEN /\ report'[i].llm_refined_score = Real(refined_scores[report'[i].job_id])
                        /\ report'[i].display = FormatTenths(refined_scores[report'[i].job_id])
                   ELSE /\ report'[i].llm_refined_score = NullScore
                        /\ report'[i].display =
                               IF \E j \in 1..Len(report') :
                                      report'[j].job_id \in DOMAIN refined_scores
                               THEN "nan" ELSE "-" ]_vars

\* a run has reported one record with the refined score 0.0 and one without
\* any, whose row in the scores table holds null
C18_Witness ==
    /\ pc = "exited" /\ exit_status = "ok"
    /\ \E i, j \in 1..Len(report) :
           /\ report[i].llm_refined_score = Real(0)
           /\ report[i].display = "0.0000"
           /\ report[j].llm_refined_score = NullScore
           /\ tbl_scores[report[j].job_id].llm_refined_score = NullScore

\* C19: for every response text the parser returns a mapping and does not
\* raise.
C19_ParserNeverRaises ==
    r_pc # "raised"

\* C20: a call of refine_scores eventually ends (it returns, or raises as
\* under C19), also when a provider never responds.
C20_RefineScoresEventuallyReturns ==
    (r_pc = "called") ~> (r_pc \in { "returned", "raised" })

\* a successful invocation has printed its report and its summary line
RunOk == pc = "exited" /\ exit_status = "ok"

\* line 280: the summary line of main(), "Updated <n> records at <time>."
RunSummary == [ updated |-> Len(ranked_jobs) ]

\* the records (rows with a job_id) that job_postings held when the run
\* started: those without a usable body, and the others
BlankRows ==
    { i \in 1..Len(cache_before.postings) :
        /\ cache_before.postings[i].job_id # None
        /\ Strip(cache_before.postings[i].description) = "" }
TextRows ==
    { i \in 1..Len(cache_before.postings) :
        /\ cache_before.postings[i].job_id # None
        /\ Strip(cache_before.postings[i].description) # "" }

\* the run left the blank records out (nothing embedded, no score written
\* by this run or any other) and ranked every other record
BlankRecordsExcluded ==
    /\ \A i \in BlankRows :
           /\ cache_before.postings[i].job_id \notin Embedded
           /\ cache_before.postings[i].job_id \notin DOMAIN tbl_scores
           /\ \A j \in 1..Len(jobs) : jobs[j].job_id # cache_before.postings[i].job_id
    /\ \A i \in TextRows :
           \E r \in 1..Len(ranked_jobs) :
               ranked_jobs[r].job.job_id = cache_before.postings[i].job_id

\* C21: a record with a blank body is left out of a run that succeeds:
\* nothing is embedded or written for it and every other record is ranked;
\* and the summary of the run names the records it skipped.
C21_BlankRecordSkippedAndReported ==
    RunOk =>
        /\ BlankRecordsExcluded
        /\ BlankRows # {} =>
               /\ "skipped" \in DOMAIN RunSummary
               /\ { cache_before.postings[i].job_id : i \in BlankRows }
                      \subseteq RunSummary.skipped

\* what one uninterrupted run under the model leaves for record i and for
\* the resume: the vectors of their texts
FreshJobVector(i) == embed_texts(args.model_name, << jobs[i].description >>, FALSE)[1]
FreshResumeVector == embed_texts(args.model_name, << resume_text >>, TRUE)[1]

\* C22: when a run has completed, whatever an earlier killed run left in
\* the store, the cache entries of the run's model and the base score of
\* every record are those of a single uninterrupted run.
C22_CompleteRunAfterCrashEqualsSingleRun ==
    RunOk =>
        /\ ResumeKey \in DOMAIN tbl_resume_embeddings
        /\ tbl_resume_embeddings[ResumeKey] = embedding_to_bytes(FreshResumeVector)
        /\ { k \in DOMAIN tbl_job_embeddings : k[2] = args.model_name }
               = { JobKey(i) : i \in 1..Len(jobs) }
        /\ DOMAIN tbl_scores = { jobs[i].job_id : i \in 1..Len(jobs) }
        /\ \A i \in 1..Len(jobs) :
               /\ tbl_job_embeddings[JobKey(i)] = embedding_to_bytes(FreshJobVector(i))
               /\ tbl_scores[jobs[i].job_id].score =
                      Real(Dot(FreshJobVector(i), FreshResumeVector))

\* a run has completed that found the cache entry of the first record and
\* not that of the second: the run before it was killed inside the upsert
\* loop
C22_Witness ==
    /\ RunOk
    /\ runs = 2
    /\ Len(jobs) = 2
    /\ JobKey(1) \in DOMAIN cache_before.jobs
    /\ JobKey(2) \notin DOMAIN cache_before.jobs

\* the records of the run that had no cache entry under the run's model when
\* the run started
MissingAtStart == { i \in 1..Len(jobs) : JobKey(i) \notin DOMAIN cache_before.jobs }
DocumentCalls == { c \in 1..Len(embed_calls) : ~embed_calls[c].is_query }

\* C24: once the batch load has returned, the provider was called for
\* documents at most once, and only when some record had no cache entry,
\* with exactly those records as its subjects; the vector of each of them
\* is stored under its own identity; the entries that existed are left as
\* they were; row i of the matrix is the vector of record i (the cached one
\* when there was one, the new one otherwise).
C24_BatchLoadEmbedsMissingOnceInInputOrder ==
    JobsLoaded =>
        /\ Cardinality(DocumentCalls) <= 1
        /\ (DocumentCalls = {}) <=> (MissingAtStart = {})
        /\ \A c \in DocumentCalls :
               /\ Len(embed_calls[c].subjects) = Cardinality(MissingAtStart)
               /\ Range(embed_calls[c].subjects) = { jobs[i].job_id : i \in MissingAtStart }
        /\ Len(job_embeddings) = Len(jobs)
        /\ \A k \in DOMAIN cache_before.jobs :
               /\ k \in DOMAIN tbl_job_embeddings
               /\ tbl_job_embeddings[k] = cache_before.jobs[k]
        /\ \A i \in 1..Len(jobs) :
               IF i \in MissingAtStart
               THEN /\ JobKey(i) \in DOMAIN tbl_job_embeddings
                    /\ tbl_job_embeddings[JobKey(i)] = embedding_to_bytes(FreshJobVector(i))
                    /\ job_embeddings[i] = FreshJobVector(i)
               ELSE job_embeddings[i] = bytes_to_embedding(cache_before.jobs[JobKey(i)])

\* the batch load has returned for two records of which the first had a
\* cache entry and the second, stored after the earlier run had read the
\* corpus, had none, with different vectors
C24_Witness ==
    /\ JobsLoaded
    /\ Len(jobs) = 2
    /\ MissingAtStart = { 2 }
    /\ job_embeddings[1] # job_embeddings[2]

RelaxedParsed == r_pc = "returned" /\ answered.kind = "relaxed"

\* the value the relaxed tier is to give each raw literal, in tenths; the
\* literals it is to skip are nan and none in any letter case and the ones
\* that do not spell a number
RelaxedSkipped == { "nan", "NaN", "None", "bad" }
RelaxedExpected(raw) ==
    CASE raw = "007" -> 70
      [] raw = "00.5" -> 5
      [] raw = "000" -> 0
      [] raw = "0.7" -> 7
      [] raw = "\"0.7\"" -> 7
      [] raw = "1.5" -> 15

\* C26: the relaxed tier gives each matched fragment the value of its
\* literal without the surrounding quotes and the leading zeros (007 is 7.0,
\* 00.5 is 0.5, 000 is 0, "0.7" is 0.7); a fragment whose literal is nan or
\* none in any letter case, or spells no number, changes nothing, and the
\* other fragments are still taken (the last one of an identity wins).  A
\* fragment whose identity is blank is passed over.
C26_RelaxedValuesNormalisedAndBadOnesSkipped ==
    RelaxedParsed =>
        LET es == answered.entries
            kept == { i \in 1..Len(es) :
                        /\ Strip(es[i].job_id) # ""
                        /\ es[i].refined_score.s \notin RelaxedSkipped }
        IN  /\ DOMAIN r_result = { es[i].job_id : i \in kept }
            /\ \A i \in kept :
                   (\A j \in kept : j > i => es[j].job_id # es[i].job_id)
                       => r_result[es[i].job_id] = RelaxedExpected(es[i].refined_score.s)

\* a quoted literal and one with leading zeros have been parsed
C26_Witness ==
    /\ RelaxedParsed
    /\ answered = Text("relaxed", << Entry("1", Str("\"0.7\"")), Entry("2", Str("00.5")) >>)
    /\ r_result = DictSet(DictSet(EmptyDict, "1", 7), "2", 5)

\* what the relaxed tier would make of the response text
RelaxedWouldGive == RelaxedFrom(RelaxedView(answered), 1, EmptyDict)

\* the text parses as JSON (an array, an object, a number or null) and the
\* strict tier keeps no entry of it
JsonWithoutKeptEntry ==
    /\ answered.kind \in { "json", "object", "scalar" }
    /\ \A i \in 1..Len(answered.entries) :
           answered.entries[i] = NonObject \/ ~Kept(answered.entries[i])

\* C25: once the parser is through with a text, a text that is not JSON has
\* the result of the relaxed tier, and a text that parses as JSON and in
\* which the strict tier keeps no entry has the empty mapping, whatever the
\* relaxed tier would find in it.
C25_RelaxedTierOnlyWhenNotJson ==
    r_pc # "parse" =>
        /\ answered.kind = "relaxed" => (r_pc = "returned" /\ r_result = RelaxedWouldGive)
        /\ JsonWithoutKeptEntry => (r_pc = "returned" /\ r_result = EmptyDict)

\* what C25 states holds of every text on which the parser returns
RelaxedTierOnlyWhenNotJsonUnlessRaised ==
    r_pc # "raised" => C25_RelaxedTierOnlyWhenNotJson

\* a JSON text in which the strict tier keeps nothing and the pattern of
\* the relaxed tier would match has been parsed to the empty mapping
StrictEmptyWhereRelaxedMatches ==
    /\ r_pc = "returned"
    /\ answered.kind = "json"
    /\ r_result = EmptyDict
    /\ RelaxedWouldGive # EmptyDict

\* C27: a run with refinement hands the gateway the first min(N, number of
\* ranked records) ranked records, N = max(1, --llm-top-n), in rank order
\* and each with its own base score; a run without refinement never enters
\* the gateway, attempts no provider and has no refined score to write.
C27_GatewayGetsTopSliceOnlyWhenEnabled ==
    /\ r_pc # "idle" =>
           /\ args.use_llm
           /\ Len(r_jobs) = Min(Max(1, args.llm_top_n), Len(ranked_jobs))
           /\ \A k \in 1..Len(r_jobs) :
                  /\ r_jobs[k].job_id = ranked_jobs[k].job.job_id
                  /\ r_jobs[k].description = ranked_jobs[k].job.description
                  /\ r_jobs[k].score = ranked_jobs[k].score
                  /\ r_jobs[k].score = base_scores_map[r_jobs[k].job_id]
    /\ ~args.use_llm =>
           /\ r_pc = "idle"
           /\ attempted = <<>>
           /\ api_calls = <<>>
           /\ refined_scores = EmptyDict

\* the gateway was entered with one candidate out of two ranked records,
\* for a requested top-N of 0
C27_Witness ==
    /\ r_pc # "idle"
    /\ args.llm_top_n = 0
    /\ Len(ranked_jobs) = 2
    /\ Len(r_jobs) = 1

\* C29: a call of refine_scores with an empty candidate list is either
\* still to be entered or has returned the empty mapping, and at no point
\* has a provider been attempted or an API been called, whatever the
\* provider argument is.
C29_EmptyCandidatesReturnEmptyWithoutProvider ==
    (r_pc # "idle" /\ r_jobs = <<>>) =>
        /\ r_pc \in { "called", "returned" }
        /\ attempted = <<>>
        /\ api_calls = <<>>
        /\ answered = NoOutcome
        /\ r_pc = "returned" => r_result = EmptyDict

\* the call with no candidate and a provider name that is not recognised
\* has returned
C29_Witness ==
    /\ r_pc = "returned"
    /\ r_jobs = <<>>
    /\ r_provider = "claude"
    /\ r_result = EmptyDict

\* C28: a step that writes a score row (a turn of the persist loop) is taken
\* in the persist loop, and in a run with refinement only when the gateway
\* call has returned and its result is the run's refined_scores; while the
\* call is pending, waiting or has raised, no turn of the loop is taken.
C28_ScoreWritesOnlyAfterGatewayReturned ==
    [][ (tbl_scores' # tbl_scores \/ persist_i' > persist_i) =>
            /\ pc = "persist"
            /\ args.use_llm => (r_pc = "returned" /\ refined_scores = r_result) ]_vars

\* a run with refinement whose gateway call returned has written a row
C28_Witness ==
    /\ pc = "persist"
    /\ args.use_llm
    /\ r_pc = "returned"
    /\ persist_i > 1
    /\ tbl_scores # EmptyDict

TailorReturned == tailor.pc = "returned"
OnePageAttempts ==
    { i \in 1..Len(tailor.attempts) :
        tailor.attempts[i].t = "rendered" /\ tailor.attempts[i].pages <= 1 }
FailedAttempts ==
    { i \in 1..Len(tailor.attempts) : tailor.attempts[i].t = "compile_error" }

\* C30, as claimed: the call makes at most MAX_ITERATIONS attempts and then
\* returns (it does not end in the generator's error); the returned status
\* is "success" exactly when an attempt rendered at most one page, that
\* attempt being the last one made; otherwise it is "failed_compile" when
\* some attempt failed to compile and "failed" when none did.
C30_ReturnsWithinMaxIterations ==
    tailor.pc # "idle" =>
        /\ tailor.turns <= MAX_ITERATIONS
        /\ tailor.error # "GeminiError"
        /\ TailorReturned =>
              /\ (tailor.status = "success") <=> (OnePageAttempts # {})
              /\ OnePageAttempts \subseteq { Len(tailor.attempts) }
              /\ tailor.status # "success" =>
                    tailor.status = (IF FailedAttempts # {} THEN "failed_compile"
                                     ELSE "failed")

\* C30, amended: the call makes at most MAX_ITERATIONS turns and ends either
\* by returning or by raising, FileNotFoundError before the first turn when
\* a file is missing, the generator's GeminiError in any turn, with no turn
\* made after it.  When it returns, the status is "success" exactly when an
\* attempt rendered at most one page, that attempt is the last one made and
\* the one returned; otherwise all MAX_ITERATIONS attempts were made, and
\* the status is "failed_compile" when the last failed attempt left a
\* non-empty message and "failed" when no attempt failed or the last failure
\* had no message.
C30_ReturnsOrRaisesWithinMaxIterations ==
    tailor.pc # "idle" =>
        /\ tailor.turns <= MAX_ITERATIONS
        /\ Len(tailor.attempts) <= tailor.turns
        /\ OnePageAttempts \subseteq { Len(tailor.attempts) }
        /\ tailor.pc = "loop" => OnePageAttempts = {}
        /\ tailor.pc = "raised" =>
              \/ tailor.error = "FileNotFoundError" /\ tailor.turns = 0
              \/ /\ tailor.error = "GeminiError"
                 /\ Len(tailor.attempts) = tailor.turns - 1
                 /\ OnePageAttempts = {}
        /\ TailorReturned =>
              /\ tailor.error = None
              /\ (tailor.status = "success") <=> (OnePageAttempts # {})
              /\ tailor.version = Len(tailor.attempts)
              /\ tailor.status = "success" =>
                    tailor.page_count = tailor.attempts[tailor.version].pages
              /\ tailor.status # "success" =>
                    /\ Len(tailor.attempts) = MAX_ITERATIONS
                    /\ LET last == CHOOSE i \in FailedAttempts \cup { 0 } :
                                       \A j \in FailedAttempts : j <= i
                       IN  tailor.status =
                              (IF last # 0 /\ tailor.attempts[last].message # ""
                               THEN "failed_compile" ELSE "failed")

\* the call has returned "failed_compile" after MAX_ITERATIONS attempts of
\* which the first failed to compile and the last rendered two pages
C30_Witness ==
    /\ TailorReturned
    /\ tailor.status = "failed_compile"
    /\ Len(tailor.attempts) = MAX_ITERATIONS
    /\ tailor.attempts[1].t = "compile_error"
    /\ tailor.attempts[MAX_ITERATIONS] = [ t |-> "rendered", pages |-> 2 ]

\* the upserts committed so far under a key, in commit order
WritesTo(key) == { a \in 1..Len(loaders.log) : loaders.log[a].key = key }
WrittenKeys == { loaders.log[a].key : a \in 1..Len(loaders.log) }
LoadersDone == loaders.procs # << >> /\ \A p \in Procs : loaders.procs[p].pc = "done"

\* both embedding tables as one mapping from (subject, model) to a blob: the
\* subject is a job_id or the resume path
CacheNow ==
    [ k \in DOMAIN tbl_job_embeddings \cup DOMAIN tbl_resume_embeddings |->
        IF k \in DOMAIN tbl_job_embeddings THEN tbl_job_embeddings[k]
        ELSE tbl_resume_embeddings[k] ]
CacheAtStart ==
    [ k \in DOMAIN cache_before.jobs \cup DOMAIN cache_before.resume |->
        IF k \in DOMAIN cache_before.jobs THEN cache_before.jobs[k]
        ELSE cache_before.resume[k] ]

\* with two invocations under one model over one corpus, at every point of
\* every interleaving the tables hold one blob per (subject, model), that of
\* the last upsert committed under the key; the entries no upsert named are
\* as they were; the upserts of one record's key all carry the same blob,
\* the embedding of the record's text; and when both invocations are through
\* the resume and every record have their entry
ConcurrentLoadsLastWriterWins ==
    loaders.procs # << >> =>
        /\ DOMAIN CacheNow = DOMAIN CacheAtStart \cup WrittenKeys
        /\ \A k \in DOMAIN CacheAtStart \ WrittenKeys : CacheNow[k] = CacheAtStart[k]
        /\ \A k \in WrittenKeys :
               /\ k[1] # DEFAULT_RESUME_PATH =>
                      \A a, b \in WritesTo(k) : loaders.log[a].blob = loaders.log[b].blob
               /\ \A a \in WritesTo(k) :
                      (\A b \in WritesTo(k) : b <= a) => CacheNow[k] = loaders.log[a].blob
        /\ LoadersDone =>
               LET js == load_jobs_from_db(tbl_job_postings)
                   name == loaders.procs[1].model_name
               IN  /\ << DEFAULT_RESUME_PATH, name >> \in DOMAIN tbl_resume_embeddings
                   /\ \A i \in 1..Len(js) :
                          LET key == << js[i].job_id, name >>
                          IN  /\ key \in DOMAIN tbl_job_embeddings
                              /\ key \in WrittenKeys =>
                                     tbl_job_embeddings[key] =
                                         embedding_to_bytes(
                                             embed_texts(name, << js[i].description >>, FALSE)[1])

\* both invocations wrote the key of one record, both wrote the key of the
\* resume, and an entry present at the start was named by no upsert
ConcurrentLoadsOverlap ==
    /\ LoadersDone
    /\ \E a, b \in 1..Len(loaders.log) :
           /\ a < b
           /\ loaders.log[a].key = loaders.log[b].key
           /\ loaders.log[a].key[1] # DEFAULT_RESUME_PATH
           /\ loaders.log[a].proc # loaders.log[b].proc
    /\ \E a, b \in 1..Len(loaders.log) :
           /\ a < b
           /\ loaders.log[a].key = loaders.log[b].key
           /\ loaders.log[a].key[1] = DEFAULT_RESUME_PATH
    /\ \E k \in DOMAIN cache_before.jobs : k \notin WrittenKeys

\* C23: with two invocations under one model over one corpus, at every point
\* of every interleaving the tables hold one blob per (subject, model), that
\* of the last upsert committed under the key, and the upserts of one key
\* all carry the same blob, for a record's key and for the resume's key.
C23_ConcurrentLoadsLastWriterWinsSameContent ==
    loaders.procs # << >> =>
        /\ DOMAIN CacheNow = DOMAIN CacheAtStart \cup WrittenKeys
        /\ \A k \in WrittenKeys :
               /\ \A a, b \in WritesTo(k) : loaders.log[a].blob = loaders.log[b].blob
               /\ \A a \in WritesTo(k) :
                      (\A b \in WritesTo(k) : b <= a) => CacheNow[k] = loaders.log[a].blob

====
